---- MODULE Spec2Model ----
(***************************************************************************)
(* Model of duckencoder.py (a Python 2 program): the DuckyScript encoder   *)
(* DuckEncoder.parseScript and the static methods it is built from, the    *)
(* HID output loop DuckEncoder.out2hid, and the command line of main.      *)
(*                                                                         *)
(* A Python str is a sequence of one-character strings; the byte strings   *)
(* the encoder builds with chr() are sequences of integers in 0..255.      *)
(* A call of a method is a record: the value returned, the exception that  *)
(* left the call (NoExc when it returned), and the side effects of the     *)
(* call: lines printed to standard output (so), lines written to standard  *)
(* error (se) and tests of membership in a layout table (lk).              *)
(***************************************************************************)
EXTENDS Integers, Sequences, FiniteSets, TLC

(***************************************************************************)
(* Python built-ins used by the encoder                                    *)
(***************************************************************************)

\* the printable ASCII characters, in code order from 0x20 (the grave accent
\* 0x60, which no input uses, by its name)
Printable ==
    <<" ", "!", "\"", "#", "$", "%", "&", "'", "(", ")", "*", "+", ",", "-", ".", "/", "0", "1", "2", "3", "4", "5", "6", "7", "8", "9", ":", ";", "<", "=", ">", "?", "@", "A", "B", "C", "D", "E", "F", "G", "H", "I", "J", "K", "L", "M", "N", "O", "P", "Q", "R", "S", "T", "U", "V", "W", "X", "Y", "Z", "[", "\\", "]", "^", "_">> \o <<"GRAVE">> \o
    <<"a", "b", "c", "d", "e", "f", "g", "h", "i", "j", "k", "l", "m", "n", "o", "p", "q", "r", "s", "t", "u", "v", "w", "x", "y", "z", "{", "|", "}", "~">>

\* ord(c)
Ord(c) ==
    IF c = "\t" THEN 9
    ELSE IF c = "\n" THEN 10
    ELSE IF c = "\f" THEN 12
    ELSE IF c = "\r" THEN 13
    ELSE 31 + (CHOOSE i \in 1..Len(Printable) : Printable[i] = c)

LowerLetters == <<"a", "b", "c", "d", "e", "f", "g", "h", "i", "j", "k", "l", "m", "n", "o", "p", "q", "r", "s", "t", "u", "v", "w", "x", "y", "z">>

UpperLetters == <<"A", "B", "C", "D", "E", "F", "G", "H", "I", "J", "K", "L", "M", "N", "O", "P", "Q", "R", "S", "T", "U", "V", "W", "X", "Y", "Z">>

\* str.upper() on one character
UpperChar(c) ==
    IF \E i \in 1..26 : LowerLetters[i] = c
    THEN UpperLetters[CHOOSE i \in 1..26 : LowerLetters[i] = c]
    ELSE c

\* str.upper()
Upper(s) == [i \in 1..Len(s) |-> UpperChar(s[i])]

\* the characters str.strip() removes
IsSpace(c) == c \in {" ", "\t", "\n", "\r", "\f"}

RECURSIVE LStrip(_)
LStrip(s) ==
    IF s # <<>> /\ IsSpace(Head(s)) THEN LStrip(Tail(s)) ELSE s

RECURSIVE RStrip(_)
RStrip(s) ==
    IF s # <<>> /\ IsSpace(s[Len(s)]) THEN RStrip(SubSeq(s, 1, Len(s) - 1)) ELSE s

\* str.strip()
Strip(s) == RStrip(LStrip(s))

\* str.startswith(p), and the slice comparison s[0:len(p)] == p
StartsWith(s, p) == Len(s) >= Len(p) /\ SubSeq(s, 1, Len(p)) = p

\* str.replace(pat, ""), pat not empty
RECURSIVE RemoveAll(_, _)
RemoveAll(s, pat) ==
    IF s = <<>> THEN <<>>
    ELSE IF StartsWith(s, pat) THEN RemoveAll(SubSeq(s, Len(pat) + 1, Len(s)), pat)
    ELSE <<Head(s)>> \o RemoveAll(Tail(s), pat)

\* index of the first occurrence of the character c in s, 0 when there is none
Find(s, c) ==
    IF \E i \in 1..Len(s) : s[i] = c
    THEN CHOOSE i \in 1..Len(s) : s[i] = c /\ \A j \in 1..(i - 1) : s[j] # c
    ELSE 0

\* str.partition(c): head, separator, tail
Partition(s, c) ==
    LET i == Find(s, c)
    IN  IF i = 0 THEN <<s, <<>>, <<>>>>
        ELSE <<SubSeq(s, 1, i - 1), <<c>>, SubSeq(s, i + 1, Len(s))>>

\* str.split(c, 1): one or two pieces
Split1(s, c) ==
    LET i == Find(s, c)
    IN  IF i = 0 THEN <<s>>
        ELSE <<SubSeq(s, 1, i - 1), SubSeq(s, i + 1, Len(s))>>

\* str.split(c): all the pieces
RECURSIVE Split(_, _)
Split(s, c) ==
    LET i == Find(s, c)
    IN  IF i = 0 THEN <<s>>
        ELSE <<SubSeq(s, 1, i - 1)>> \o Split(SubSeq(s, i + 1, Len(s)), c)

\* str.splitlines(True): the lines with their terminators "\n", "\r\n", "\r"
RECURSIVE SplitLinesFrom(_, _)
SplitLinesFrom(s, cur) ==
    IF s = <<>> THEN (IF cur = <<>> THEN <<>> ELSE <<cur>>)
    ELSE IF Head(s) = "\n" THEN <<cur \o <<"\n">>>> \o SplitLinesFrom(Tail(s), <<>>)
    ELSE IF Head(s) = "\r" /\ Len(s) >= 2 /\ s[2] = "\n"
         THEN <<cur \o <<"\r", "\n">>>> \o SplitLinesFrom(Tail(Tail(s)), <<>>)
    ELSE IF Head(s) = "\r" THEN <<cur \o <<"\r">>>> \o SplitLinesFrom(Tail(s), <<>>)
    ELSE SplitLinesFrom(Tail(s), cur \o <<Head(s)>>)

SplitLines(s) == SplitLinesFrom(s, <<>>)

\* the digits, by value
HexDigits == <<"0", "1", "2", "3", "4", "5", "6", "7", "8", "9", "A", "B", "C", "D", "E", "F">>

\* the value of an upper-case digit, 16 for any other character
DigitIndex(u) ==
    IF \E i \in 1..16 : HexDigits[i] = u
    THEN (CHOOSE i \in 1..16 : HexDigits[i] = u) - 1
    ELSE 16

\* the value of a digit of int(): "0".."9", "a".."f", "A".."F"
DigitVal(c) == DigitIndex(UpperChar(c))

RECURSIVE DigitsVal(_, _, _)
DigitsVal(s, base, acc) ==
    IF s = <<>> THEN acc
    ELSE DigitsVal(Tail(s), base, acc * base + DigitVal(Head(s)))

\* int(s, base) for base 10 and 16: surrounding whitespace, one optional sign,
\* for base 16 an optional 0x prefix, then at least one digit of the base;
\* ok is FALSE where Python raises ValueError
ParseDigits(v, base) ==
    IF v # <<>> /\ \A i \in 1..Len(v) : DigitVal(v[i]) < base
    THEN [ok |-> TRUE, n |-> DigitsVal(v, base, 0)]
    ELSE [ok |-> FALSE, n |-> 0]

ParsePrefixed(u, base) ==
    ParseDigits(IF base = 16 /\ Len(u) >= 2 /\ u[1] = "0" /\ u[2] \in {"x", "X"}
                THEN SubSeq(u, 3, Len(u)) ELSE u,
                base)

Signed(p, minus) == [ok |-> p.ok, n |-> IF minus THEN 0 - p.n ELSE p.n]

ParseSigned(t, base) ==
    Signed(ParsePrefixed(IF t # <<>> /\ Head(t) \in {"+", "-"} THEN Tail(t) ELSE t, base),
           t # <<>> /\ Head(t) = "-")

ParseInt(s, base) == ParseSigned(Strip(s), base)

\* str(hex(val))[2:].upper(), val >= 0
RECURSIVE HexStr(_)
HexStr(val) ==
    IF val < 16 THEN <<HexDigits[val + 1]>>
    ELSE HexStr(val \div 16) \o <<HexDigits[(val % 16) + 1]>>

\* a byte string repeated n times (nothing when n <= 0, as range(n) is empty)
RECURSIVE Rep(_, _)
Rep(s, n) == IF n <= 0 THEN <<>> ELSE s \o Rep(s, n - 1)

\* the bitwise OR of two bytes
RECURSIVE BitOr(_, _)
BitOr(a, b) ==
    IF a = 0 THEN b
    ELSE IF b = 0 THEN a
    ELSE 2 * BitOr(a \div 2, b \div 2) + (IF a % 2 = 1 \/ b % 2 = 1 THEN 1 ELSE 0)

(***************************************************************************)
(* Outcomes of a call                                                      *)
(***************************************************************************)

NoExc == "none"

\* None: a value no str equals
None == <<"None">>

\* the call returned v
Ret(v) == [val |-> v, exc |-> NoExc, so |-> 0, se |-> 0, lk |-> 0]

\* the call raised e
Exc(e) == [val |-> <<>>, exc |-> e, so |-> 0, se |-> 0, lk |-> 0]

\* a, then b: the values concatenated (the operator + and += of the code);
\* b is not evaluated when a raised
Then(a, b) ==
    IF a.exc # NoExc THEN a
    ELSE [val |-> IF b.exc = NoExc THEN a.val \o b.val ELSE <<>>,
          exc |-> b.exc,
          so  |-> a.so + b.so,
          se  |-> a.se + b.se,
          lk  |-> a.lk + b.lk]

\* the outcome r with n more table tests, p more lines on standard output and
\* e more on standard error
With(r, n, p, e) == [r EXCEPT !.lk = @ + n, !.so = @ + p, !.se = @ + e]

(***************************************************************************)
(* Layout tables: the dictionaries readResource returns, from names to the *)
(* text of their values                                                    *)
(***************************************************************************)

\* faulty variant: the language table is tested first
Lookup_mLangFirst(key_entry, keyProp, langProp) ==
    IF key_entry \in DOMAIN langProp
    THEN [found |-> TRUE, keyval |-> langProp[key_entry], lk |-> 1]
    ELSE IF key_entry \in DOMAIN keyProp
    THEN [found |-> TRUE, keyval |-> keyProp[key_entry], lk |-> 2]
    ELSE [found |-> FALSE, keyval |-> <<>>, lk |-> 2]

\* "x in keyProp" and, when that fails, "x in langProp", with the value found;
\* lk counts the membership tests made
Lookup(key_entry, keyProp, langProp) ==
    IF key_entry \in DOMAIN keyProp
    THEN [found |-> TRUE, keyval |-> keyProp[key_entry], lk |-> 1]
    ELSE IF key_entry \in DOMAIN langProp
    THEN [found |-> TRUE, keyval |-> langProp[key_entry], lk |-> 2]
    ELSE [found |-> FALSE, keyval |-> <<>>, lk |-> 2]

\* the text of a table value to one byte: base 16 after a 0x prefix, base 10
\* otherwise, then chr(), which accepts 0..255 only
\* chr(n) of a parsed integer n, ValueError when int() or chr() raised
Chr(n) ==
    IF ~n.ok THEN Exc("ValueError")
    ELSE IF n.n < 0 \/ n.n > 255 THEN Exc("ValueError")
    ELSE Ret(<<n.n>>)

keyval2chr(keyval) ==
    Chr(ParseInt(keyval,
                 IF Upper(SubSeq(keyval, 1, IF Len(keyval) < 2 THEN Len(keyval) ELSE 2)) = <<"0", "X">>
                 THEN 16 ELSE 10))

(***************************************************************************)
(* DuckEncoder.prop2USBByte                                                *)
(***************************************************************************)

\* keyval is bound only by a hit in one of the two tables: with no hit the
\* test of keyval reads an unbound local
prop2USBByte(prop, keyProp, langProp) ==
    LET hit == Lookup(prop, keyProp, langProp)
    IN  IF ~hit.found THEN With(Exc("UnboundLocalError"), hit.lk, 0, 0)
        ELSE With(keyval2chr(hit.keyval), hit.lk, 0, 0)

\* the call that passes the property name alone to the three-parameter
\* static method
prop2USBByte1(prop) == Exc("TypeError")

\* faulty variant: the two bytes one after the other
OrBytes_mConcat(a, b) == Then(a, b)

\* chr(ord(a) | ord(b)) of two prop2USBByte calls, a evaluated first
OrBytes(a, b) ==
    LET ab == Then(a, b)
    IN  IF ab.exc # NoExc THEN ab
        ELSE IF Len(a.val) # 1 \/ Len(b.val) # 1 THEN [ab EXCEPT !.val = <<>>, !.exc = "TypeError"]
        ELSE [ab EXCEPT !.val = <<BitOr(a.val[1], b.val[1])>>]

(***************************************************************************)
(* DuckEncoder.delay2USBBytes                                              *)
(***************************************************************************)

\* faulty variant: chunks of 256 instead of 255
delay2USBBytes_m256(delay) ==
    LET count  == delay \div 256
        remain == delay % 256
    IN  Rep(<<0, 255>>, count) \o <<0, remain>>

delay2USBBytes(delay) ==
    LET count  == delay \div 255
        remain == delay % 255
    IN  Rep(<<0, 255>>, count) \o <<0, remain>>

(***************************************************************************)
(* DuckEncoder.ASCIIChar2USBBytes                                          *)
(***************************************************************************)

\* the name of a character in the language table
ASCIIName(char) ==
    LET val    == Ord(char)
        h      == HexStr(val)
        hexval == IF Len(h) = 1 THEN <<"0">> \o h ELSE h
    IN  (IF val < 128 THEN <<"A", "S", "C", "I", "I", "_">> ELSE <<"I", "S", "O", "_", "8", "8", "5", "9", "_", "1", "_">>) \o hexval

\* the loop over the names of one language-table entry; result is the outcome
\* so far; early tells that the loop was left by return or by an exception
RECURSIVE ASCIIChar2USBBytesLoop(_, _, _, _)
ASCIIChar2USBBytesLoop(entries, keyProp, langProp, result) ==
    IF entries = <<>> THEN [r |-> result, early |-> FALSE]
    ELSE LET key_entry == Strip(Head(entries))
             hit       == Lookup(key_entry, keyProp, langProp)
             looked    == With(result, hit.lk, 0, 0)
         IN  IF ~hit.found
             THEN [r |-> With([looked EXCEPT !.val = <<>>], 0, 2, 0), early |-> TRUE]
             ELSE LET c == Then(looked, keyval2chr(hit.keyval))
                  IN  IF c.exc # NoExc THEN [r |-> c, early |-> TRUE]
                      ELSE ASCIIChar2USBBytesLoop(Tail(entries), keyProp, langProp, c)

\* faulty variant: no zero modifier after a single byte
AddModifier_mNone(l) == l.r

\* after the loop: a zero modifier after a single byte
AddModifier(l) ==
    IF ~l.early /\ Len(l.r.val) = 1 THEN [l.r EXCEPT !.val = @ \o <<0>>] ELSE l.r

\* the part of ASCIIChar2USBBytes after the name is built
ASCIIName2USBBytes(name, keyProp, langProp) ==
    IF name \notin DOMAIN langProp THEN With(Ret(<<>>), 1, 1, 0)
    ELSE AddModifier(ASCIIChar2USBBytesLoop(Split(langProp[name], ","), keyProp, langProp,
                                            With(Ret(<<>>), 1, 0, 0)))

ASCIIChar2USBBytes(char, keyProp, langProp) ==
    ASCIIName2USBBytes(ASCIIName(char), keyProp, langProp)

(***************************************************************************)
(* DuckEncoder.keyInstr2USBBytes                                           *)
(***************************************************************************)

\* the dictionary of the second attempt
Aliases ==
    (<<"E", "S", "C", "A", "P", "E">> :> <<"E", "S", "C">>) @@ (<<"R", "E", "T", "U", "R", "N">> :> <<"E", "N", "T", "E", "R">>) @@ (<<"D", "E", "L">> :> <<"D", "E", "L", "E", "T", "E">>) @@
    (<<"B", "R", "E", "A", "K">> :> <<"P", "A", "U", "S", "E">>) @@ (<<"C", "O", "N", "T", "R", "O", "L">> :> <<"C", "T", "R", "L">>) @@ (<<"D", "O", "W", "N", "A", "R", "R", "O", "W">> :> <<"D", "O", "W", "N">>) @@
    (<<"U", "P", "A", "R", "R", "O", "W">> :> <<"U", "P">>) @@ (<<"L", "E", "F", "T", "A", "R", "R", "O", "W">> :> <<"L", "E", "F", "T">>) @@ (<<"R", "I", "G", "H", "T", "A", "R", "R", "O", "W">> :> <<"R", "I", "G", "H", "T">>) @@
    (<<"M", "E", "N", "U">> :> <<"A", "P", "P">>) @@ (<<"W", "I", "N", "D", "O", "W", "S">> :> <<"G", "U", "I">>) @@ (<<"P", "L", "A", "Y">> :> <<"M", "E", "D", "I", "A", "_", "P", "L", "A", "Y", "_", "P", "A", "U", "S", "E">>) @@
    (<<"P", "A", "U", "S", "E">> :> <<"M", "E", "D", "I", "A", "_", "P", "L", "A", "Y", "_", "P", "A", "U", "S", "E">>) @@ (<<"S", "T", "O", "P">> :> <<"M", "E", "D", "I", "A", "_", "S", "T", "O", "P">>) @@
    (<<"M", "U", "T", "E">> :> <<"M", "E", "D", "I", "A", "_", "M", "U", "T", "E">>) @@ (<<"V", "O", "L", "U", "M", "E", "U", "P">> :> <<"M", "E", "D", "I", "A", "_", "V", "O", "L", "U", "M", "E", "_", "I", "N", "C">>) @@
    (<<"V", "O", "L", "U", "M", "E", "D", "O", "W", "N">> :> <<"M", "E", "D", "I", "A", "_", "V", "O", "L", "U", "M", "E", "_", "D", "E", "C">>) @@ (<<"S", "C", "R", "O", "L", "L", "L", "O", "C", "K">> :> <<"S", "C", "R", "O", "L", "L", "_", "L", "O", "C", "K">>) @@
    (<<"N", "U", "M", "L", "O", "C", "K">> :> <<"N", "U", "M", "_", "L", "O", "C", "K">>) @@ (<<"C", "A", "P", "S", "L", "O", "C", "K">> :> <<"C", "A", "P", "S", "_", "L", "O", "C", "K">>)

\* dict.get(keyinstr): the empty string stands for None, both are false in
\* "if keyinstr:"
AliasOf(keyinstr) ==
    IF keyinstr \in DOMAIN Aliases THEN Aliases[keyinstr] ELSE <<>>

\* faulty variant: the bytes of the character are returned whole, with the
\* modifier of the character
FirstByte_mWhole(r) ==
    IF r.exc # NoExc THEN r
    ELSE IF r.val = <<>> THEN [r EXCEPT !.exc = "IndexError"]
    ELSE r

\* r[0] of the outcome r of ASCIIChar2USBBytes
FirstByte(r) ==
    IF r.exc # NoExc THEN r
    ELSE IF r.val = <<>> THEN [r EXCEPT !.exc = "IndexError"]
    ELSE [r EXCEPT !.val = <<r.val[1]>>]

\* faulty variant: when the alias misses too, the alias of the alias is tried
SecondAttempt_mFollow(first, alias, keyProp, langProp) ==
    IF first.found \/ alias = <<>> THEN first
    ELSE IF Lookup(<<"K", "E", "Y", "_">> \o Strip(alias), keyProp, langProp).found
    THEN Lookup(<<"K", "E", "Y", "_">> \o Strip(alias), keyProp, langProp)
    ELSE Lookup(<<"K", "E", "Y", "_">> \o AliasOf(Upper(Strip(alias))), keyProp, langProp)

\* the second attempt, made when the first missed and the name has an alias
SecondAttempt(first, alias, keyProp, langProp) ==
    IF first.found \/ alias = <<>> THEN first
    ELSE [Lookup(<<"K", "E", "Y", "_">> \o Strip(alias), keyProp, langProp) EXCEPT !.lk = @ + first.lk]

\* after the two attempts: the messages on standard error and the empty
\* string, or the byte of the value found
\* faulty variant: a miss raises instead of returning the empty string
KeyEntry2chr_mRaise(hit) ==
    IF ~hit.found THEN With(Exc("KeyError"), hit.lk, 0, 0)
    ELSE With(keyval2chr(hit.keyval), hit.lk, 0, 0)

KeyEntry2chr(hit) ==
    IF ~hit.found THEN With(Ret(<<>>), hit.lk, 0, 2)
    ELSE With(keyval2chr(hit.keyval), hit.lk, 0, 0)

keyInstr2USBBytes(keyinstr, keyProp, langProp) ==
    IF Len(keyinstr) = 1
    THEN FirstByte(ASCIIChar2USBBytes(keyinstr[1], keyProp, langProp))
    ELSE KeyEntry2chr(SecondAttempt(Lookup(<<"K", "E", "Y", "_">> \o Strip(keyinstr), keyProp, langProp),
                                    AliasOf(Upper(Strip(keyinstr))),
                                    keyProp, langProp))

(***************************************************************************)
(* DuckEncoder.parseScriptLine                                             *)
(***************************************************************************)

\* the branches "<command> <key>": the key, then one modifier; without a key
\* the outcome bare
ModifierLine(args, modifier, bare, keyProp, langProp) ==
    IF args # <<>>
    THEN Then(keyInstr2USBBytes(args, keyProp, langProp),
              prop2USBByte(modifier, keyProp, langProp))
    ELSE bare

\* the branches of two modifiers: the key, then the two modifiers or'ed
\* together; without a key the outcome bare
\* faulty variant: the test of the argument is missing
ComboLine_mNoTest(args, mod1, mod2, bare, keyProp, langProp) ==
    Then(keyInstr2USBBytes(args, keyProp, langProp),
         OrBytes(prop2USBByte(mod1, keyProp, langProp),
                 prop2USBByte(mod2, keyProp, langProp)))

ComboLine(args, mod1, mod2, bare, keyProp, langProp) ==
    IF args # <<>>
    THEN Then(keyInstr2USBBytes(args, keyProp, langProp),
              OrBytes(prop2USBByte(mod1, keyProp, langProp),
                      prop2USBByte(mod2, keyProp, langProp)))
    ELSE bare

\* the STRING loop
RECURSIVE StringLoop(_, _, _, _)
StringLoop(chars, keyProp, langProp, result) ==
    IF chars = <<>> \/ result.exc # NoExc THEN result
    ELSE StringLoop(Tail(chars), keyProp, langProp,
                    Then(result, ASCIIChar2USBBytes(Head(chars), keyProp, langProp)))

\* faulty variant: the delay follows every character
AddDelay_mAlways(keydata, delaystr) ==
    IF keydata.exc = NoExc THEN [keydata EXCEPT !.val = @ \o delaystr] ELSE keydata

\* keydata + delaystr when the character gave bytes
AddDelay(keydata, delaystr) ==
    IF keydata.exc = NoExc /\ Len(keydata.val) > 0
    THEN [keydata EXCEPT !.val = @ \o delaystr]
    ELSE keydata

\* the STRING_DELAY loop: the delay follows every character that gave bytes
RECURSIVE StringDelayLoop(_, _, _, _, _)
StringDelayLoop(chars, delaystr, keyProp, langProp, result) ==
    IF chars = <<>> \/ result.exc # NoExc THEN result
    ELSE StringDelayLoop(Tail(chars), delaystr, keyProp, langProp,
                         Then(result,
                              AddDelay(ASCIIChar2USBBytes(Head(chars), keyProp, langProp),
                                       delaystr)))

\* the DELAY branch after int(args)
DelayLine(delay) ==
    IF delay.ok THEN Ret(delay2USBBytes(delay.n)) ELSE Exc("ValueError")

\* the STRING_DELAY branch after args.split(" ", 1): unpacking needs two
\* pieces, and int() a number
StringDelayLine(two, keyProp, langProp) ==
    IF Len(two) # 2 THEN Exc("ValueError")
    ELSE IF ~ParseInt(Strip(two[1]), 10).ok THEN Exc("ValueError")
    ELSE StringDelayLoop(Strip(two[2]), delay2USBBytes(ParseInt(Strip(two[1]), 10).n),
                         keyProp, langProp, Ret(<<>>))

parseScriptLine(line, keyProp, langProp) ==
    LET parts == Partition(line, " ")
        cmd   == Strip(parts[1])
        args  == Strip(parts[3])
    IN  IF line = None THEN Exc("AttributeError")
        ELSE IF cmd = <<"D", "E", "L", "A", "Y">>
        THEN DelayLine(ParseInt(args, 10))
        ELSE IF cmd = <<"S", "T", "R", "I", "N", "G">>
        THEN IF args = <<>> THEN Ret(<<>>)
             ELSE StringLoop(args, keyProp, langProp, Ret(<<>>))
        ELSE IF cmd = <<"S", "T", "R", "I", "N", "G", "_", "D", "E", "L", "A", "Y">>
        THEN IF args = <<>> THEN Ret(<<>>)
             ELSE StringDelayLine(Split1(args, " "), keyProp, langProp)
        ELSE IF cmd \in {<<"C", "O", "N", "T", "R", "O", "L">>, <<"C", "T", "R", "L">>}
        THEN ModifierLine(args, <<"M", "O", "D", "I", "F", "I", "E", "R", "K", "E", "Y", "_", "C", "T", "R", "L">>,
                          Then(prop2USBByte1(<<"K", "E", "Y", "_", "L", "E", "F", "T", "_", "C", "T", "R", "L">>), Ret(<<0>>)), keyProp, langProp)
        ELSE IF cmd = <<"A", "L", "T">>
        THEN ModifierLine(args, <<"M", "O", "D", "I", "F", "I", "E", "R", "K", "E", "Y", "_", "A", "L", "T">>,
                          Then(prop2USBByte1(<<"K", "E", "Y", "_", "L", "E", "F", "T", "_", "A", "L", "T">>), Ret(<<0>>)), keyProp, langProp)
        ELSE IF cmd = <<"S", "H", "I", "F", "T">>
        THEN ModifierLine(args, <<"M", "O", "D", "I", "F", "I", "E", "R", "K", "E", "Y", "_", "S", "H", "I", "F", "T">>,
                          Then(prop2USBByte1(<<"K", "E", "Y", "_", "L", "E", "F", "T", "_", "S", "H", "I", "F", "T">>), Ret(<<0>>)), keyProp, langProp)
        ELSE IF cmd = <<"C", "T", "R", "L", "-", "A", "L", "T">>
        THEN ComboLine(args, <<"M", "O", "D", "I", "F", "I", "E", "R", "K", "E", "Y", "_", "C", "T", "R", "L">>, <<"M", "O", "D", "I", "F", "I", "E", "R", "K", "E", "Y", "_", "A", "L", "T">>, Ret(<<>>), keyProp, langProp)
        ELSE IF cmd = <<"C", "T", "R", "L", "-", "S", "H", "I", "F", "T">>
        THEN ComboLine(args, <<"M", "O", "D", "I", "F", "I", "E", "R", "K", "E", "Y", "_", "C", "T", "R", "L">>, <<"M", "O", "D", "I", "F", "I", "E", "R", "K", "E", "Y", "_", "S", "H", "I", "F", "T">>, Ret(<<>>), keyProp, langProp)
        ELSE IF cmd = <<"C", "O", "M", "M", "A", "N", "D", "-", "O", "P", "T", "I", "O", "N">>
        THEN ComboLine(args, <<"M", "O", "D", "I", "F", "I", "E", "R", "K", "E", "Y", "_", "L", "E", "F", "T", "_", "G", "U", "I">>, <<"M", "O", "D", "I", "F", "I", "E", "R", "K", "E", "Y", "_", "A", "L", "T">>, Ret(<<>>), keyProp, langProp)
        ELSE IF cmd = <<"A", "L", "T", "-", "S", "H", "I", "F", "T">>
        THEN ComboLine(args, <<"M", "O", "D", "I", "F", "I", "E", "R", "K", "E", "Y", "_", "L", "E", "F", "T", "_", "A", "L", "T">>, <<"M", "O", "D", "I", "F", "I", "E", "R", "K", "E", "Y", "_", "S", "H", "I", "F", "T">>,
                       Then(prop2USBByte(<<"K", "E", "Y", "_", "L", "E", "F", "T", "_", "A", "L", "T">>, keyProp, langProp),
                            OrBytes(prop2USBByte(<<"M", "O", "D", "I", "F", "I", "E", "R", "K", "E", "Y", "_", "L", "E", "F", "T", "_", "A", "L", "T">>, keyProp, langProp),
                                    prop2USBByte(<<"M", "O", "D", "I", "F", "I", "E", "R", "K", "E", "Y", "_", "S", "H", "I", "F", "T">>, keyProp, langProp))),
                       keyProp, langProp)
        ELSE IF cmd = <<"A", "L", "T", "-", "T", "A", "B">>
        THEN IF args # <<>> THEN Ret(<<>>)
             ELSE Then(prop2USBByte(<<"K", "E", "Y", "_", "T", "A", "B">>, keyProp, langProp),
                       prop2USBByte(<<"M", "O", "D", "I", "F", "I", "E", "R", "K", "E", "Y", "_", "L", "E", "F", "T", "_", "A", "L", "T">>, keyProp, langProp))
        ELSE IF cmd \in {<<"G", "U", "I">>, <<"W", "I", "N", "D", "O", "W", "S">>}
        THEN ModifierLine(args, <<"M", "O", "D", "I", "F", "I", "E", "R", "K", "E", "Y", "_", "L", "E", "F", "T", "_", "G", "U", "I">>,
                          Then(prop2USBByte(<<"K", "E", "Y", "_", "L", "E", "F", "T", "_", "G", "U", "I">>, keyProp, langProp),
                               prop2USBByte(<<"M", "O", "D", "I", "F", "I", "E", "R", "K", "E", "Y", "_", "L", "E", "F", "T", "_", "G", "U", "I">>, keyProp, langProp)),
                          keyProp, langProp)
        ELSE IF cmd = <<"C", "O", "M", "M", "A", "N", "D">>
        THEN ModifierLine(args, <<"M", "O", "D", "I", "F", "I", "E", "R", "K", "E", "Y", "_", "L", "E", "F", "T", "_", "G", "U", "I">>,
                          Then(prop2USBByte(<<"K", "E", "Y", "_", "C", "O", "M", "M", "A", "N", "D">>, keyProp, langProp), Ret(<<0>>)),
                          keyProp, langProp)
        ELSE Then(keyInstr2USBBytes(cmd, keyProp, langProp), Ret(<<0>>))

(***************************************************************************)
(* Inputs: layout tables and script lines                                  *)
(***************************************************************************)

\* at most MaxLines raw lines in a script
MaxLines == 3

\* REPEAT counts 0..MaxRepeat
MaxRepeat == 2

\* delays 0..MaxDelay given to delay2USBBytes
MaxDelay == 520

\* a keyboard table in the format readResource reads (hexadecimal and decimal
\* values)
KeyboardFull ==
    (<<"K", "E", "Y", "_", "A">> :> <<"4">>) @@ (<<"K", "E", "Y", "_", "R">> :> <<"2", "1">>) @@ (<<"K", "E", "Y", "_", "Z">> :> <<"0", "x", "1", "D">>) @@
    (<<"K", "E", "Y", "_", "E", "N", "T", "E", "R">> :> <<"4", "0">>) @@ (<<"K", "E", "Y", "_", "E", "S", "C">> :> <<"4", "1">>) @@ (<<"K", "E", "Y", "_", "T", "A", "B">> :> <<"4", "3">>) @@
    (<<"K", "E", "Y", "_", "D", "E", "L", "E", "T", "E">> :> <<"0", "x", "4", "C">>) @@ (<<"K", "E", "Y", "_", "P", "A", "U", "S", "E">> :> <<"7", "2">>) @@
    (<<"K", "E", "Y", "_", "L", "E", "F", "T", "_", "C", "T", "R", "L">> :> <<"0", "x", "0", "1">>) @@ (<<"K", "E", "Y", "_", "L", "E", "F", "T", "_", "S", "H", "I", "F", "T">> :> <<"0", "x", "0", "2">>) @@
    (<<"K", "E", "Y", "_", "L", "E", "F", "T", "_", "A", "L", "T">> :> <<"0", "x", "0", "4">>) @@ (<<"K", "E", "Y", "_", "L", "E", "F", "T", "_", "G", "U", "I">> :> <<"0", "x", "0", "8">>) @@
    (<<"K", "E", "Y", "_", "C", "O", "M", "M", "A", "N", "D">> :> <<"0", "x", "0", "8">>) @@
    (<<"M", "O", "D", "I", "F", "I", "E", "R", "K", "E", "Y", "_", "C", "T", "R", "L">> :> <<"0", "x", "0", "1">>) @@ (<<"M", "O", "D", "I", "F", "I", "E", "R", "K", "E", "Y", "_", "S", "H", "I", "F", "T">> :> <<"0", "x", "0", "2">>) @@
    (<<"M", "O", "D", "I", "F", "I", "E", "R", "K", "E", "Y", "_", "A", "L", "T">> :> <<"0", "x", "0", "4">>) @@ (<<"M", "O", "D", "I", "F", "I", "E", "R", "K", "E", "Y", "_", "L", "E", "F", "T", "_", "A", "L", "T">> :> <<"0", "x", "0", "4">>) @@
    (<<"M", "O", "D", "I", "F", "I", "E", "R", "K", "E", "Y", "_", "L", "E", "F", "T", "_", "G", "U", "I">> :> <<"0", "x", "0", "8">>)

\* a keyboard table without the keys of the modifiers themselves and without
\* the GUI modifier
KeyboardSparse ==
    (<<"K", "E", "Y", "_", "A">> :> <<"4">>) @@ (<<"K", "E", "Y", "_", "E", "N", "T", "E", "R">> :> <<"4", "0">>) @@
    (<<"M", "O", "D", "I", "F", "I", "E", "R", "K", "E", "Y", "_", "C", "T", "R", "L">> :> <<"0", "x", "0", "1">>) @@ (<<"M", "O", "D", "I", "F", "I", "E", "R", "K", "E", "Y", "_", "S", "H", "I", "F", "T">> :> <<"0", "x", "0", "2">>) @@
    (<<"M", "O", "D", "I", "F", "I", "E", "R", "K", "E", "Y", "_", "A", "L", "T">> :> <<"0", "x", "0", "4">>)

\* a keyboard table with few keys, with the target of an alias of an alias
\* (BREAK to PAUSE to MEDIA_PLAY_PAUSE) and with modifier values that share
\* a bit
KeyboardOther ==
    (<<"K", "E", "Y", "_", "A">> :> <<"4">>) @@ (<<"K", "E", "Y", "_", "D", "E", "L", "E", "T", "E">> :> <<"0", "x", "4", "C">>) @@
    (<<"K", "E", "Y", "_", "M", "E", "D", "I", "A", "_", "P", "L", "A", "Y", "_", "P", "A", "U", "S", "E">> :> <<"0", "x", "E", "8">>) @@
    (<<"M", "O", "D", "I", "F", "I", "E", "R", "K", "E", "Y", "_", "C", "T", "R", "L">> :> <<"0", "x", "0", "3">>) @@ (<<"M", "O", "D", "I", "F", "I", "E", "R", "K", "E", "Y", "_", "S", "H", "I", "F", "T">> :> <<"0", "x", "0", "2">>) @@
    (<<"M", "O", "D", "I", "F", "I", "E", "R", "K", "E", "Y", "_", "A", "L", "T">> :> <<"0", "x", "0", "6">>) @@ (<<"M", "O", "D", "I", "F", "I", "E", "R", "K", "E", "Y", "_", "L", "E", "F", "T", "_", "A", "L", "T">> :> <<"0", "x", "0", "4">>) @@
    (<<"M", "O", "D", "I", "F", "I", "E", "R", "K", "E", "Y", "_", "L", "E", "F", "T", "_", "G", "U", "I">> :> <<"0", "x", "0", "C">>)

\* a language table: characters to key names, and one key of its own
LanguageUs ==
    (<<"A", "S", "C", "I", "I", "_", "6", "1">> :> <<"K", "E", "Y", "_", "A">>) @@ (<<"A", "S", "C", "I", "I", "_", "4", "1">> :> <<"K", "E", "Y", "_", "A", ",", " ", "M", "O", "D", "I", "F", "I", "E", "R", "K", "E", "Y", "_", "S", "H", "I", "F", "T">>) @@
    (<<"A", "S", "C", "I", "I", "_", "7", "2">> :> <<"K", "E", "Y", "_", "R">>) @@ (<<"A", "S", "C", "I", "I", "_", "7", "A">> :> <<"K", "E", "Y", "_", "Z">>) @@
    (<<"A", "S", "C", "I", "I", "_", "5", "A">> :> <<"K", "E", "Y", "_", "Z", ",", " ", "M", "O", "D", "I", "F", "I", "E", "R", "K", "E", "Y", "_", "S", "H", "I", "F", "T">>) @@
    (<<"K", "E", "Y", "_", "E", "N", "T", "E", "R">> :> <<"8", "8">>) @@ (<<"K", "E", "Y", "_", "N", "O", "N", "_", "U", "S", "_", "1", "0", "0">> :> <<"1", "0", "0">>)

\* a language table with one character only
LanguageSparse ==
    (<<"A", "S", "C", "I", "I", "_", "6", "1">> :> <<"K", "E", "Y", "_", "A">>) @@ (<<"M", "O", "D", "I", "F", "I", "E", "R", "K", "E", "Y", "_", "L", "E", "F", "T", "_", "A", "L", "T">> :> <<"0", "x", "0", "4">>)

\* the dictionary of a file without entries
EmptyTable == [k \in {} |-> <<>>]

\* the pairs of tables scripts are encoded with
ScriptLayouts ==
    { <<KeyboardFull, LanguageUs>>,
      <<KeyboardSparse, LanguageSparse>> }

\* the pairs of tables the static methods are called with
Layouts ==
    ScriptLayouts \cup { <<EmptyTable, EmptyTable>>, <<KeyboardOther, LanguageUs>> }

\* str(n), n >= 0
RECURSIVE DecStr(_)
DecStr(n) ==
    IF n < 10 THEN <<HexDigits[n + 1]>>
    ELSE DecStr(n \div 10) \o <<HexDigits[(n % 10) + 1]>>

\* the raw line "REPEAT n"
RepeatLine(n) == <<"R", "E", "P", "E", "A", "T", " ">> \o DecStr(n) \o <<"\n">>

\* raw lines that are blank or comments
SkippedLines == { <<" ", " ", "\r", "\n">>, <<"/", "/", " ", "c", "\n">>, <<"R", "E", "M", " ", "x", "\n">> }

\* raw command lines, with their line terminators
CommandLines ==
    { <<"S", "T", "R", "I", "N", "G", " ", "a", "Z", "\n">>, <<"A", "L", "T", "-", "T", "A", "B", " ", "x", "\r", "\n">>, <<"S", "O", "M", "E", "T", "H", "I", "N", "G", "B", "O", "G", "U", "S", "\n">>,
      <<"C", "T", "R", "L", "\n">>, <<" ", " ", "G", "U", "I", " ", "r", "\n">> }

\* raw lines of the keyword REPEAT without a count
CountlessRepeatLines == { <<"R", "E", "P", "E", "A", "T", " ", "\n">> }

\* the raw lines scripts are made of
RawLines ==
    SkippedLines \cup CommandLines \cup { RepeatLine(n) : n \in 0..MaxRepeat }
        \cup CountlessRepeatLines

RECURSIVE Concat(_)
Concat(ss) == IF ss = <<>> THEN <<>> ELSE Head(ss) \o Concat(Tail(ss))

\* the scripts: the texts of at most MaxLines raw lines
Scripts == { Concat(ls) : ls \in UNION { [1..n -> RawLines] : n \in 0..MaxLines } }

(***************************************************************************)
(* DuckEncoder.parseScript, one iteration of its loop at a time            *)
(***************************************************************************)

VARIABLES
    source,    \* the script text
    keyProp,   \* the keyboard table
    langProp,  \* the language table
    lines,     \* source.splitlines(True)
    idx,       \* the position of the loop in lines, from 1
    lastLine,  \* the line recorded for REPEAT, None at first
    result,    \* the payload so far
    lookups,   \* the table membership tests made so far
    pc,        \* "loop", "done" after return, "raised" after an exception
    exc,       \* the exception that left parseScript, NoExc otherwise
    call,      \* the last direct call of a static method, with its outcome
    data,      \* out2hid: the payload to send
    pos,       \* out2hid: i, the position of the loop in data, from 0
    events,    \* out2hid: the sleeps, writes and flushes made, in order
    hpc,       \* out2hid: "loop", "closed" after the with block
    argv,      \* main: the command line after the program name
    stdin,     \* main: the text on standard input, and whether it was read
    opts,      \* main: the options getopt returned, not handled yet
    seen,      \* main: the options handled so far
    ofile,     \* main: the output file name, None for standard output
    lang,      \* main: the language name
    rawpassthru, \* main: the flag of the -r option
    stdout,    \* main: lines printed and bytes written to standard output
    written,   \* main: the files written, as pairs of name and content
    mpc,       \* main: "start", "getopt", "opts", "write", "exit"
    status,    \* main: the exit status, or the exception that ended the run
    self_keyboard,     \* instance: self.keyboard
    self_language,     \* instance: self.language
    self_str_lang,     \* instance: self.__str_lang, what getLanguage() returns
    self_key_dev_file, \* instance: self.__key_dev_file
    calls,     \* instance: the names given to setLanguage so far, in order
    res,       \* instance: what the last setLanguage returned
    ipc        \* instance: "idle" without an instance, "ready" after __init__

\* the state of out2hid
hidVars == <<data, pos, events, hpc>>

\* the state of main (with source and result, which main names the same)
mainVars ==
    <<argv, stdin, opts, seen, ofile, lang, rawpassthru, stdout, written, mpc, status>>

\* the state of an instance of DuckEncoder
selfVars ==
    <<self_keyboard, self_language, self_str_lang, self_key_dev_file, calls, res, ipc>>

vars ==
    <<source, keyProp, langProp, lines, idx, lastLine, result, lookups, pc, exc, call,
      hidVars, mainVars, selfVars>>

NoCall == [fn |-> "none", arg |-> <<>>, ret |-> Ret(<<>>)]

\* out2hid not called
HidIdle ==
    /\ data = <<>>
    /\ pos = 0
    /\ events = <<>>
    /\ hpc = "idle"

\* main not run
MainIdle ==
    /\ argv = <<>>
    /\ stdin = [text |-> <<>>, eof |-> FALSE]
    /\ opts = <<>>
    /\ seen = <<>>
    /\ ofile = "inject.bin"
    /\ lang = "us"
    /\ rawpassthru = FALSE
    /\ stdout = [lines |-> 0, bytes |-> <<>>]
    /\ written = {}
    /\ mpc = "idle"
    /\ status = 0

\* no instance constructed
SelfIdle ==
    /\ self_keyboard = EmptyTable
    /\ self_language = EmptyTable
    /\ self_str_lang = ""
    /\ self_key_dev_file = "/dev/hidg0"
    /\ calls = <<>>
    /\ res = "None"
    /\ ipc = "idle"

\* l.strip().replace("\r\n", "").replace("\n", "")
CleanLine(l) == RemoveAll(RemoveAll(Strip(l), <<"\r", "\n">>), <<"\n">>)

\* faulty variant: REM comments are not skipped
IsSkipped_mNoRem(l) == Len(l) = 0 \/ StartsWith(l, <<"/", "/">>)

\* the test of the lines the loop skips
IsSkipped(l) == Len(l) = 0 \/ StartsWith(l, <<"/", "/">>) \/ StartsWith(l, <<"R", "E", "M", " ">>)

\* the test of a repeat instruction
IsRepeat(l) == SubSeq(l, 1, IF Len(l) < 7 THEN Len(l) ELSE 7) = <<"R", "E", "P", "E", "A", "T", " ">>

\* the test that makes a repeat instruction a no-op: no count after the
\* keyword, or no line recorded
\* faulty variant: the test of the recorded line is missing
NothingToRepeat_mNoLast(instr, last) == Len(instr) = 1

NothingToRepeat(instr, last) == Len(instr) = 1 \/ last = None

\* faulty variant: one call more than the count
RepeatCalls_mOneMore(r, n) ==
    IF n + 1 <= 0 THEN Ret(<<>>)
    ELSE IF r.exc # NoExc THEN r
    ELSE [val |-> Rep(r.val, n + 1), exc |-> NoExc,
          so |-> (n + 1) * r.so, se |-> (n + 1) * r.se, lk |-> (n + 1) * r.lk]

\* the outcome of n calls in a row with the outcome r each (the first call
\* that raises ends the loop)
RepeatCalls(r, n) ==
    IF n <= 0 THEN Ret(<<>>)
    ELSE IF r.exc # NoExc THEN r
    ELSE [val |-> Rep(r.val, n), exc |-> NoExc,
          so |-> n * r.so, se |-> n * r.se, lk |-> n * r.lk]

\* the loop "for i in range(int(...))" over calls of outcome r: int() raises
\* before the first call
RepeatRange(n, r) == IF n.ok THEN RepeatCalls(r, n.n) ELSE Exc("ValueError")

\* the outcome of one iteration on the cleaned line c, last being the line
\* recorded and r the outcome of parseScriptLine on the line to encode
LineOutcome(c, last, r) ==
    IF IsSkipped(c) THEN Ret(<<>>)
    ELSE IF ~IsRepeat(c) THEN r
    ELSE IF NothingToRepeat(Split1(c, " "), last) THEN Ret(<<>>)
    ELSE RepeatRange(ParseInt(Strip(Split1(c, " ")[2]), 10), r)

\* the line recorded after one iteration on the cleaned line c
LineRecorded(c, last) ==
    IF IsSkipped(c) THEN last
    ELSE IF IsRepeat(c) /\ NothingToRepeat(Split1(c, " "), last) THEN last
    ELSE c

\* the loop of parseScript as one call: ls are the raw lines left, acc the
\* outcome so far
RECURSIVE parseScriptLoop(_, _, _, _, _)
parseScriptLoop(ls, last, acc, keyboard, language) ==
    IF ls = <<>> \/ acc.exc # NoExc THEN acc
    ELSE parseScriptLoop(
             Tail(ls), LineRecorded(CleanLine(Head(ls)), last),
             Then(acc, LineOutcome(CleanLine(Head(ls)), last,
                                   parseScriptLine(IF IsRepeat(CleanLine(Head(ls)))
                                                   THEN last ELSE CleanLine(Head(ls)),
                                                   keyboard, language))),
             keyboard, language)

\* parseScript(source, keyboard, language), as generatePayload calls it
parseScript(text, keyboard, language) ==
    parseScriptLoop(SplitLines(text), None, Ret(<<>>), keyboard, language)

Init ==
    /\ source \in Scripts
    /\ \E t \in ScriptLayouts : keyProp = t[1] /\ langProp = t[2]
    /\ lines = SplitLines(source)
    /\ idx = 1
    /\ lastLine = None
    /\ result = <<>>
    /\ lookups = 0
    /\ pc = "loop"
    /\ exc = NoExc
    /\ call = NoCall
    /\ HidIdle
    /\ MainIdle
    /\ SelfIdle

\* the line of this iteration
Cur == CleanLine(lines[idx])

Looping == pc = "loop" /\ idx <= Len(lines)

\* faulty variant: a line whose encoding is empty is not recorded
Apply_mNoEmpty(r, last) ==
    /\ lookups' = lookups + r.lk
    /\ IF r.exc # NoExc
       THEN /\ pc' = "raised"
            /\ exc' = r.exc
            /\ UNCHANGED <<idx, lastLine, result>>
       ELSE /\ result' = result \o r.val
            /\ lastLine' = IF r.val = <<>> THEN lastLine ELSE last
            /\ idx' = idx + 1
            /\ UNCHANGED <<pc, exc>>
    /\ UNCHANGED <<source, keyProp, langProp, lines, call>>
    /\ UNCHANGED <<hidVars, mainVars, selfVars>>

\* the effect of a call made by the loop on the state of parseScript
Apply(r, last) ==
    /\ lookups' = lookups + r.lk
    /\ IF r.exc # NoExc
       THEN /\ pc' = "raised"
            /\ exc' = r.exc
            /\ UNCHANGED <<idx, lastLine, result>>
       ELSE /\ result' = result \o r.val
            /\ lastLine' = last
            /\ idx' = idx + 1
            /\ UNCHANGED <<pc, exc>>
    /\ UNCHANGED <<source, keyProp, langProp, lines, call>>
    /\ UNCHANGED <<hidVars, mainVars, selfVars>>

\* a blank line or a comment: continue
SkipLine ==
    /\ Looping
    /\ IsSkipped(Cur)
    /\ idx' = idx + 1
    /\ UNCHANGED <<source, keyProp, langProp, lines, lastLine, result, lookups, pc, exc, call>>
    /\ UNCHANGED <<hidVars, mainVars, selfVars>>

\* a repeat instruction without a count or without a recorded line: continue
RepeatSkip ==
    /\ Looping
    /\ ~IsSkipped(Cur)
    /\ IsRepeat(Cur)
    /\ NothingToRepeat(Split1(Cur, " "), lastLine)
    /\ idx' = idx + 1
    /\ UNCHANGED <<source, keyProp, langProp, lines, lastLine, result, lookups, pc, exc, call>>
    /\ UNCHANGED <<hidVars, mainVars, selfVars>>

\* a repeat instruction: the recorded line is parsed again int(count) times,
\* and the instruction is recorded
RepeatLast ==
    /\ Looping
    /\ ~IsSkipped(Cur)
    /\ IsRepeat(Cur)
    /\ ~NothingToRepeat(Split1(Cur, " "), lastLine)
    /\ Apply(RepeatRange(ParseInt(Strip(Split1(Cur, " ")[2]), 10),
                         parseScriptLine(lastLine, keyProp, langProp)),
             Cur)

\* any other line is parsed and recorded
EncodeLine ==
    /\ Looping
    /\ ~IsSkipped(Cur)
    /\ ~IsRepeat(Cur)
    /\ Apply(parseScriptLine(Cur, keyProp, langProp), Cur)

\* after the last line: return result
Return ==
    /\ pc = "loop"
    /\ idx > Len(lines)
    /\ pc' = "done"
    /\ UNCHANGED <<source, keyProp, langProp, lines, idx, lastLine, result, lookups, exc, call>>
    /\ UNCHANGED <<hidVars, mainVars, selfVars>>

Next == SkipLine \/ RepeatSkip \/ RepeatLast \/ EncodeLine \/ Return

Spec == Init /\ [][Next]_vars

(***************************************************************************)
(* Direct calls of the static methods                                      *)
(***************************************************************************)

\* property names given to prop2USBByte
PropNames ==
    { <<"K", "E", "Y", "_", "L", "E", "F", "T", "_", "C", "T", "R", "L">>, <<"K", "E", "Y", "_", "L", "E", "F", "T", "_", "A", "L", "T">>, <<"K", "E", "Y", "_", "L", "E", "F", "T", "_", "S", "H", "I", "F", "T">>, <<"K", "E", "Y", "_", "T", "A", "B">>, <<"K", "E", "Y", "_", "E", "N", "T", "E", "R">>,
      <<"M", "O", "D", "I", "F", "I", "E", "R", "K", "E", "Y", "_", "C", "T", "R", "L">>, <<"M", "O", "D", "I", "F", "I", "E", "R", "K", "E", "Y", "_", "L", "E", "F", "T", "_", "G", "U", "I">>, <<"M", "O", "D", "I", "F", "I", "E", "R", "K", "E", "Y", "_", "L", "E", "F", "T", "_", "A", "L", "T">>, <<"K", "E", "Y", "_", "N", "O", "N", "E">> }

\* key instructions given to keyInstr2USBBytes
KeyInstrs ==
    { <<"E", "N", "T", "E", "R">>, <<"R", "E", "T", "U", "R", "N">>, <<"S", "O", "M", "E", "T", "H", "I", "N", "G", "B", "O", "G", "U", "S">>, <<"N", "O", "N", "_", "U", "S", "_", "1", "0", "0">>, <<"B", "R", "E", "A", "K">>, <<"P", "A", "U", "S", "E">>,
      <<"a">>, <<"Z">>, <<"x">>, <<"z">>, <<"A">> }

\* lines given to parseScriptLine, as parseScript passes them
ScriptLines ==
    { CleanLine(l) : l \in CommandLines } \cup
    { <<"A", "L", "T", "-", "T", "A", "B">>, <<"D", "E", "L", "A", "Y", " ", "2", "5", "6">>, <<"A", "L", "T", "-", "T", "A", "B", " ", "E", "N", "T", "E", "R">>, <<"C", "T", "R", "L", "-", "A", "L", "T">>, <<"C", "T", "R", "L", "-", "S", "H", "I", "F", "T">>, <<"C", "O", "M", "M", "A", "N", "D", "-", "O", "P", "T", "I", "O", "N">>,
      <<"C", "T", "R", "L", "-", "A", "L", "T", " ", "D", "E", "L", "E", "T", "E">>, <<"A", "L", "T", "-", "S", "H", "I", "F", "T">>, <<"S", "T", "R", "I", "N", "G">>, <<"S", "T", "R", "I", "N", "G", "_", "D", "E", "L", "A", "Y">>, <<"S", "T", "R", "I", "N", "G", "_", "D", "E", "L", "A", "Y", " ", "5", " ", "a">>,
      <<"C", "O", "N", "T", "R", "O", "L">>, <<"A", "L", "T">>, <<"S", "H", "I", "F", "T">>, <<"A", "L", "T", " ", "E", "N", "T", "E", "R">>, <<"G", "U", "I">>, <<"C", "O", "M", "M", "A", "N", "D">>, <<"R", "E", "P", "E", "A", "T", " ", "2">>,
      <<"G", "U", "I", " ", "x">>, <<"S", "T", "R", "I", "N", "G", " ", "x", "a", "x", "Z">>, <<"S", "T", "R", "I", "N", "G", "_", "D", "E", "L", "A", "Y", " ", "3", "0", "0", " ", "x", "a", "Z", "x">>, <<"S", "T", "R", "I", "N", "G", "_", "D", "E", "L", "A", "Y", " ", "0", " ", "a">>,
      <<"C", "T", "R", "L", "-", "S", "H", "I", "F", "T", " ", "E", "S", "C">>, <<"C", "O", "M", "M", "A", "N", "D", "-", "O", "P", "T", "I", "O", "N", " ", "a">>, <<"A", "L", "T", "-", "S", "H", "I", "F", "T", " ", "Z">>, <<"A", "L", "T", "-", "S", "H", "I", "F", "T", " ", "D", "E", "L", "E", "T", "E">>,
      <<"C", "T", "R", "L", "-", "A", "L", "T", " ", "N", "O", "S", "U", "C", "H", "K", "E", "Y">>, <<"C", "T", "R", "L", " ", "z">>, <<"C", "T", "R", "L", " ", "Z">>, <<"S", "H", "I", "F", "T", " ", "a">>, <<"C", "O", "M", "M", "A", "N", "D", " ", "A">>,
      <<"C", "T", "R", "L", "-", "S", "H", "I", "F", "T", " ", "z">> }

InitCall ==
    /\ source = <<>>
    /\ \E t \in Layouts : keyProp = t[1] /\ langProp = t[2]
    /\ lines = <<>>
    /\ idx = 1
    /\ lastLine = None
    /\ result = <<>>
    /\ lookups = 0
    /\ pc = "call"
    /\ exc = NoExc
    /\ call = NoCall
    /\ HidIdle
    /\ MainIdle
    /\ SelfIdle

CallDelay2USBBytes ==
    /\ \E delay \in 0..MaxDelay :
           call' = [fn |-> "delay2USBBytes", arg |-> delay, ret |-> Ret(delay2USBBytes(delay))]
    /\ UNCHANGED <<source, keyProp, langProp, lines, idx, lastLine, result, lookups, pc, exc>>
    /\ UNCHANGED <<hidVars, mainVars, selfVars>>

CallProp2USBByte ==
    /\ \E prop \in PropNames :
           call' = [fn |-> "prop2USBByte", arg |-> prop,
                    ret |-> prop2USBByte(prop, keyProp, langProp)]
    /\ UNCHANGED <<source, keyProp, langProp, lines, idx, lastLine, result, lookups, pc, exc>>
    /\ UNCHANGED <<hidVars, mainVars, selfVars>>

CallKeyInstr2USBBytes ==
    /\ \E keyinstr \in KeyInstrs :
           call' = [fn |-> "keyInstr2USBBytes", arg |-> keyinstr,
                    ret |-> keyInstr2USBBytes(keyinstr, keyProp, langProp)]
    /\ UNCHANGED <<source, keyProp, langProp, lines, idx, lastLine, result, lookups, pc, exc>>
    /\ UNCHANGED <<hidVars, mainVars, selfVars>>

CallParseScriptLine ==
    /\ \E line \in ScriptLines :
           call' = [fn |-> "parseScriptLine", arg |-> line,
                    ret |-> parseScriptLine(line, keyProp, langProp)]
    /\ UNCHANGED <<source, keyProp, langProp, lines, idx, lastLine, result, lookups, pc, exc>>
    /\ UNCHANGED <<hidVars, mainVars, selfVars>>

NextCall ==
    CallDelay2USBBytes \/ CallProp2USBByte \/ CallKeyInstr2USBBytes \/ CallParseScriptLine

SpecCall == InitCall /\ [][NextCall]_vars

(***************************************************************************)
(* DuckEncoder.out2hid, one iteration of its loop at a time                *)
(***************************************************************************)

\* payloads of at most MaxData bytes
MaxData == 4

\* the bytes payloads are made of: the zero keycode, a keycode, a modifier
HidBytes == {0, 4, 2}

Payloads == UNION { [1..n -> HidBytes] : n \in 0..MaxData }

\* chr(mod) + '\x00' + chr(key) + 5 zero bytes + 8 zero bytes
Report(k, m) == <<m, 0, k, 0, 0, 0, 0, 0>> \o <<0, 0, 0, 0, 0, 0, 0, 0>>

\* time.sleep(float(mod) / 1000.0): the suspension in milliseconds
Sleep(ms) == [op |-> "sleep", bytes |-> <<ms>>]

\* f.write(out)
Write(out) == [op |-> "write", bytes |-> out]

\* f.flush()
Flush == [op |-> "flush", bytes |-> <<>>]

\* the state when the file is open, before the first iteration
InitHid ==
    /\ source = <<>>
    /\ \E t \in ScriptLayouts : keyProp = t[1] /\ langProp = t[2]
    /\ lines = <<>>
    /\ idx = 1
    /\ lastLine = None
    /\ result = <<>>
    /\ lookups = 0
    /\ pc = "hid"
    /\ exc = NoExc
    /\ call = NoCall
    /\ data \in Payloads
    /\ pos = 0
    /\ events = <<>>
    /\ hpc = "loop"
    /\ MainIdle
    /\ SelfIdle

\* an iteration of "for i in range(0, len(data), 2)" is left to run
HidLooping == hpc = "loop" /\ pos < Len(data)

\* data[i:i + 1] and data[i + 1:i + 2], positions from 0
key == data[pos + 1]

HasModifier == pos + 2 <= Len(data)

mod == data[pos + 2]

\* the last byte has no modifier byte after it: continue
Out2hidNoModifier ==
    /\ HidLooping
    /\ ~HasModifier
    /\ pos' = pos + 2
    /\ UNCHANGED <<data, events, hpc>>
    /\ UNCHANGED <<source, keyProp, langProp, lines, idx, lastLine, result, lookups, pc, exc, call>>
    /\ UNCHANGED <<mainVars, selfVars>>

\* a pair with the keycode 0: the sleep, and then the report, written and
\* flushed as for every pair
Out2hidDelay ==
    /\ HidLooping
    /\ HasModifier
    /\ key = 0
    /\ events' = events \o <<Sleep(mod), Write(Report(key, mod)), Flush>>
    /\ pos' = pos + 2
    /\ UNCHANGED <<data, hpc>>
    /\ UNCHANGED <<source, keyProp, langProp, lines, idx, lastLine, result, lookups, pc, exc, call>>
    /\ UNCHANGED <<mainVars, selfVars>>

\* a pair with a keycode: the report, written and flushed
Out2hidKey ==
    /\ HidLooping
    /\ HasModifier
    /\ key # 0
    /\ events' = events \o <<Write(Report(key, mod)), Flush>>
    /\ pos' = pos + 2
    /\ UNCHANGED <<data, hpc>>
    /\ UNCHANGED <<source, keyProp, langProp, lines, idx, lastLine, result, lookups, pc, exc, call>>
    /\ UNCHANGED <<mainVars, selfVars>>

\* after the last iteration the with block closes the file
Out2hidClose ==
    /\ hpc = "loop"
    /\ pos >= Len(data)
    /\ hpc' = "closed"
    /\ UNCHANGED <<data, pos, events>>
    /\ UNCHANGED <<source, keyProp, langProp, lines, idx, lastLine, result, lookups, pc, exc, call>>
    /\ UNCHANGED <<mainVars, selfVars>>

NextHid == Out2hidNoModifier \/ Out2hidDelay \/ Out2hidKey \/ Out2hidClose

SpecHid == InitHid /\ [][NextHid]_vars

(***************************************************************************)
(* main: the command line, the encoding and the output                     *)
(***************************************************************************)

\* command lines of at most MaxArgs arguments
MaxArgs == 3

\* the arguments command lines are made of
ArgTokens == { "-h", "-i", "-o", "-l", "-p", "-r", "--passthru", "in.txt", "xx" }

Argvs == UNION { [1..n -> ArgTokens] : n \in 0..MaxArgs }

\* the texts on standard input
Stdins == { <<"S", "T", "R", "I", "N", "G", " ", "a", "\n", "R", "E", "P", "E", "A", "T", " ", "1", "\n">>, <<"a", "x">> }

\* the readable files and their texts
InputFiles == ("in.txt" :> <<"E", "N", "T", "E", "R", "\n">>)

\* the language files in resources/, by language name
LanguageFiles == ("us" :> LanguageUs) @@ ("xx" :> LanguageSparse)

\* resources/keyboard.properties
KeyboardFile == KeyboardFull

\* ofile = None
NoOfile == "<None>"

\* getopt.getopt(argv, "hi:o:l:pr", [...]) on the arguments of ArgTokens: an
\* option with a colon takes the next argument, whatever it is, and fails
\* without one; the first argument that is no option ends the options
RECURSIVE Getopt(_, _)
Getopt(args, acc) ==
    IF args = <<>> THEN [ok |-> TRUE, opts |-> acc]
    ELSE IF Head(args) \in {"-i", "-o", "-l"}
    THEN IF Len(args) < 2 THEN [ok |-> FALSE, opts |-> acc]
         ELSE Getopt(SubSeq(args, 3, Len(args)), Append(acc, <<args[1], args[2]>>))
    ELSE IF Head(args) \in {"-h", "-p", "-r", "--passthru"}
    THEN Getopt(Tail(args), Append(acc, <<args[1], "">>))
    ELSE [ok |-> TRUE, opts |-> acc]

\* print(...): one more line on standard output
Printed(n) == [stdout EXCEPT !.lines = @ + n]

\* "for line in sys.stdin: source += line" after source = ""
ReadStdin == IF stdin.eof THEN <<>> ELSE stdin.text

InitMain ==
    /\ source = None
    /\ keyProp = KeyboardFile
    /\ langProp = LanguageFiles["us"]
    /\ lines = <<>>
    /\ idx = 1
    /\ lastLine = None
    /\ result = <<>>
    /\ lookups = 0
    /\ pc = "main"
    /\ exc = NoExc
    /\ call = NoCall
    /\ HidIdle
    /\ SelfIdle
    /\ argv \in Argvs
    /\ \E t \in Stdins : stdin = [text |-> t, eof |-> FALSE]
    /\ opts = <<>>
    /\ seen = <<>>
    /\ ofile = "inject.bin"
    /\ lang = "us"
    /\ rawpassthru = FALSE
    /\ stdout = [lines |-> 0, bytes |-> <<>>]
    /\ written = {}
    /\ mpc = "start"
    /\ status = 0

\* what no step of main changes
MainFrame ==
    UNCHANGED <<keyProp, langProp, lines, idx, lastLine, lookups, pc, call, argv, hidVars,
                selfVars>>

\* sys.exit(code) after n printed lines
Exit(code, n) ==
    /\ mpc' = "exit"
    /\ status' = code
    /\ stdout' = Printed(n)

\* without arguments: usage() and sys.exit()
NoArguments ==
    /\ mpc = "start"
    /\ argv = <<>>
    /\ Exit(0, 1)
    /\ UNCHANGED <<source, result, exc, stdin, opts, seen, ofile, lang, rawpassthru, written>>
    /\ MainFrame

\* the call of getopt: usage() and sys.exit(2) on GetoptError
MainGetopt ==
    /\ mpc = "start"
    /\ argv # <<>>
    /\ IF Getopt(argv, <<>>).ok
       THEN /\ opts' = Getopt(argv, <<>>).opts
            /\ mpc' = "opts"
            /\ UNCHANGED <<status, stdout>>
       ELSE /\ Exit(2, 1)
            /\ UNCHANGED opts
    /\ UNCHANGED <<source, result, exc, stdin, seen, ofile, lang, rawpassthru, written>>
    /\ MainFrame

\* the option of this iteration of "for opt, arg in opts"
NextOpt == mpc = "opts" /\ opts # <<>>

opt == Head(opts)[1]

arg == Head(opts)[2]

\* the option is taken off the list
OptDone ==
    /\ opts' = Tail(opts)
    /\ seen' = Append(seen, opt)

\* -h: usage() and sys.exit()
OptHelp ==
    /\ NextOpt
    /\ opt = "-h"
    /\ OptDone
    /\ Exit(0, 1)
    /\ UNCHANGED <<source, result, exc, stdin, ofile, lang, rawpassthru, written>>
    /\ MainFrame

\* -i: the file is read, or a message and sys.exit(2)
OptInput ==
    /\ NextOpt
    /\ opt = "-i"
    /\ OptDone
    /\ IF arg \in DOMAIN InputFiles
       THEN /\ source' = InputFiles[arg]
            /\ UNCHANGED <<mpc, status, stdout>>
       ELSE /\ Exit(2, 1)
            /\ UNCHANGED source
    /\ UNCHANGED <<result, exc, stdin, ofile, lang, rawpassthru, written>>
    /\ MainFrame

\* -l: the language is kept when its file is readable, or a message and
\* sys.exit(2)
OptLanguage ==
    /\ NextOpt
    /\ opt = "-l"
    /\ OptDone
    /\ IF arg \in DOMAIN LanguageFiles
       THEN /\ lang' = arg
            /\ UNCHANGED <<mpc, status, stdout>>
       ELSE /\ Exit(2, 1)
            /\ UNCHANGED lang
    /\ UNCHANGED <<source, result, exc, stdin, ofile, rawpassthru, written>>
    /\ MainFrame

\* -o
OptOutput ==
    /\ NextOpt
    /\ opt = "-o"
    /\ OptDone
    /\ ofile' = arg
    /\ UNCHANGED <<source, result, exc, stdin, lang, rawpassthru, stdout, written, mpc, status>>
    /\ MainFrame

\* -p: no output file, the source is what standard input holds
OptPassthru ==
    /\ NextOpt
    /\ opt = "-p"
    /\ OptDone
    /\ ofile' = NoOfile
    /\ source' = ReadStdin
    /\ stdin' = [stdin EXCEPT !.eof = TRUE]
    /\ UNCHANGED <<result, exc, lang, rawpassthru, stdout, written, mpc, status>>
    /\ MainFrame

\* -r: as -p, and the flag rawpassthru
OptRawpassthru ==
    /\ NextOpt
    /\ opt = "-r"
    /\ OptDone
    /\ rawpassthru' = TRUE
    /\ ofile' = NoOfile
    /\ source' = ReadStdin
    /\ stdin' = [stdin EXCEPT !.eof = TRUE]
    /\ UNCHANGED <<result, exc, lang, stdout, written, mpc, status>>
    /\ MainFrame

\* an option getopt accepts and no branch of the loop tests: the branches
\* test "--passsthru" and "--rawpasssthru"
OptUntested ==
    /\ NextOpt
    /\ opt \notin {"-h", "-i", "-l", "-o", "-p", "-r"}
    /\ OptDone
    /\ UNCHANGED <<source, result, exc, stdin, ofile, lang, rawpassthru, stdout, written, mpc,
                   status>>
    /\ MainFrame

\* after the loop
OptsDone == mpc = "opts" /\ opts = <<>>

\* no source: a message and sys.exit(2)
MainNoSource ==
    /\ OptsDone
    /\ source = None
    /\ Exit(2, 1)
    /\ UNCHANGED <<source, result, exc, stdin, opts, seen, ofile, lang, rawpassthru, written>>
    /\ MainFrame

\* the outcome r of the encoding: the lines it printed, and its value for
\* the output step or its exception, which ends the run with a traceback
Encoded(r) ==
    /\ stdout' = Printed(r.so)
    /\ exc' = r.exc
    /\ IF r.exc = NoExc
       THEN /\ result' = r.val
            /\ mpc' = "write"
            /\ UNCHANGED status
       ELSE /\ mpc' = "exit"
            /\ status' = 1
            /\ UNCHANGED result
    /\ UNCHANGED <<source, stdin, opts, seen, ofile, lang, rawpassthru, written>>
    /\ MainFrame

\* rawpassthru: every character of the source through ASCIIChar2USBBytes
MainEncodeRaw ==
    /\ OptsDone
    /\ source # None
    /\ rawpassthru
    /\ Encoded(StringLoop(source, KeyboardFile, LanguageFiles[lang], Ret(<<>>)))

\* generatePayload(source, lang)
MainEncodeScript ==
    /\ OptsDone
    /\ source # None
    /\ ~rawpassthru
    /\ Encoded(parseScript(source, KeyboardFile, LanguageFiles[lang]))

\* sys.stdout.write(result)
MainWriteStdout ==
    /\ mpc = "write"
    /\ ofile = NoOfile
    /\ stdout' = [stdout EXCEPT !.bytes = @ \o result]
    /\ mpc' = "exit"
    /\ UNCHANGED <<source, result, exc, stdin, opts, seen, ofile, lang, rawpassthru, written,
                   status>>
    /\ MainFrame

\* the payload written to the output file
MainWriteFile ==
    /\ mpc = "write"
    /\ ofile # NoOfile
    /\ written' = written \cup { <<ofile, result>> }
    /\ mpc' = "exit"
    /\ UNCHANGED <<source, result, exc, stdin, opts, seen, ofile, lang, rawpassthru, stdout,
                   status>>
    /\ MainFrame

NextMain ==
    \/ NoArguments \/ MainGetopt
    \/ OptHelp \/ OptInput \/ OptLanguage \/ OptOutput \/ OptPassthru \/ OptRawpassthru
    \/ OptUntested
    \/ MainNoSource \/ MainEncodeRaw \/ MainEncodeScript
    \/ MainWriteStdout \/ MainWriteFile

SpecMain == InitMain /\ [][NextMain]_vars

(***************************************************************************)
(* An instance of DuckEncoder: __init__, setLanguage, getLanguage,         *)
(* setKeyDevFile                                                           *)
(***************************************************************************)

\* at most MaxCalls calls of setLanguage on an instance
MaxCalls == 3

\* the names an instance is constructed with: two with a file, one without
CtorLanguages == { "us", "xx", "zz" }

\* the names setLanguage is called with
SetLanguages == CtorLanguages \cup { "" }

\* the device files given to setKeyDevFile
KeyDevFiles == { "/dev/hidg0", "/dev/hidg1" }

\* setLanguage(str_lang) on an instance whose fields are cur (__str_lang) and
\* table (language): the fields after the call and what it returns. The same
\* name: nothing is done and None is returned. A name without a file: IOError,
\* the table of us is loaded, __str_lang is left as it was. DEBUG is False,
\* so print_debug prints nothing.
setLanguage(cur, table, str_lang) ==
    IF cur = str_lang
    THEN [language |-> table, str_lang |-> cur, res |-> "None"]
    ELSE IF str_lang \in DOMAIN LanguageFiles
    THEN [language |-> LanguageFiles[str_lang], str_lang |-> str_lang,
          res |-> "language set to"]
    ELSE [language |-> LanguageFiles["us"], str_lang |-> cur,
          res |-> "No language file for"]

\* what getLanguage() returns
getLanguage == self_str_lang

\* the state after DuckEncoder(lng): __str_lang is "" when setLanguage is
\* called, and self.language is assigned by that call, lng being not ""
InitSelf ==
    /\ source = <<>>
    /\ keyProp = KeyboardFile
    /\ langProp = LanguageFiles["us"]
    /\ lines = <<>>
    /\ idx = 1
    /\ lastLine = None
    /\ result = <<>>
    /\ lookups = 0
    /\ pc = "self"
    /\ exc = NoExc
    /\ call = NoCall
    /\ HidIdle
    /\ MainIdle
    /\ self_keyboard = KeyboardFile
    /\ self_key_dev_file = "/dev/hidg0"
    /\ \E lng \in CtorLanguages :
           /\ self_language = setLanguage("", EmptyTable, lng).language
           /\ self_str_lang = setLanguage("", EmptyTable, lng).str_lang
           /\ res = setLanguage("", EmptyTable, lng).res
           /\ calls = <<lng>>
    /\ ipc = "ready"

\* no step on an instance changes the state of the other operations
SelfFrame ==
    UNCHANGED <<source, keyProp, langProp, lines, idx, lastLine, result, lookups, pc, exc,
                call, hidVars, mainVars>>

\* a call of setLanguage
SetLanguage ==
    /\ ipc = "ready"
    /\ Len(calls) < MaxCalls + 1
    /\ \E name \in SetLanguages :
           /\ self_language' = setLanguage(self_str_lang, self_language, name).language
           /\ self_str_lang' = setLanguage(self_str_lang, self_language, name).str_lang
           /\ res' = setLanguage(self_str_lang, self_language, name).res
           /\ calls' = Append(calls, name)
    /\ UNCHANGED <<self_keyboard, self_key_dev_file, ipc>>
    /\ SelfFrame

\* a call of setKeyDevFile
SetKeyDevFile ==
    /\ ipc = "ready"
    /\ \E key_dev_file \in KeyDevFiles : self_key_dev_file' = key_dev_file
    /\ UNCHANGED <<self_keyboard, self_language, self_str_lang, calls, res, ipc>>
    /\ SelfFrame

NextSelf == SetLanguage \/ SetKeyDevFile

SpecSelf == InitSelf /\ [][NextSelf]_vars

(***************************************************************************)
(* Properties                                                              *)
(***************************************************************************)

\* a line, stripped, is blank or a comment
BlankOrComment(l) ==
    Strip(l) = <<>> \/ StartsWith(Strip(l), <<"/", "/">>) \/ StartsWith(Strip(l), <<"R", "E", "M", " ">>)

\* a line, stripped, starts with the keyword REPEAT and a space
RepeatInstruction(l) == StartsWith(Strip(l), <<"R", "E", "P", "E", "A", "T", " ">>)

\* the number of lines the loop has worked on: an exception leaves idx at the
\* line that raised
Processed == IF pc = "raised" THEN idx ELSE idx - 1

\* the command token of a line and its argument
CmdOf(l) == Strip(Partition(Strip(l), " ")[1])

ArgsOf(l) == Strip(Partition(Strip(l), " ")[3])

\* the command keywords of parseScriptLine
Keywords ==
    { <<"D", "E", "L", "A", "Y">>, <<"S", "T", "R", "I", "N", "G">>, <<"S", "T", "R", "I", "N", "G", "_", "D", "E", "L", "A", "Y">>, <<"C", "O", "N", "T", "R", "O", "L">>, <<"C", "T", "R", "L">>, <<"A", "L", "T">>, <<"S", "H", "I", "F", "T">>,
      <<"C", "T", "R", "L", "-", "A", "L", "T">>, <<"C", "T", "R", "L", "-", "S", "H", "I", "F", "T">>, <<"C", "O", "M", "M", "A", "N", "D", "-", "O", "P", "T", "I", "O", "N">>, <<"A", "L", "T", "-", "S", "H", "I", "F", "T">>, <<"A", "L", "T", "-", "T", "A", "B">>,
      <<"G", "U", "I">>, <<"W", "I", "N", "D", "O", "W", "S">>, <<"C", "O", "M", "M", "A", "N", "D">> }

\* the names defined by one of the two tables
Defined == DOMAIN keyProp \cup DOMAIN langProp

\* a bare line whose multi-character command token names no key, directly or
\* through the alias table
UnknownBareKey(l) ==
    /\ ~BlankOrComment(l)
    /\ ~RepeatInstruction(l)
    /\ CmdOf(l) \notin Keywords
    /\ Len(CmdOf(l)) > 1
    /\ (<<"K", "E", "Y", "_">> \o CmdOf(l)) \notin Defined
    /\ \A a \in DOMAIN Aliases :
           a = Upper(CmdOf(l)) => (<<"K", "E", "Y", "_">> \o Aliases[a]) \notin Defined

\* the sum of the modifier bytes of the pairs of a payload
RECURSIVE SumModifiers(_)
SumModifiers(b) ==
    IF Len(b) < 2 THEN 0 ELSE b[2] + SumModifiers(SubSeq(b, 3, Len(b)))

\* C1: when parseScript returns, the payload has even length, also for scripts
\* with bare lines or key arguments that name a key of neither table.
\* The code breaks it: the script SOMETHINGBOGUS returns the single byte 0.
C1_PayloadEvenLength ==
    pc = "done" => Len(result) % 2 = 0

\* C2: delay2USBBytes(d) has length 2*(d div 255 + 1): d div 255 pairs (0, 255),
\* then the pair (0, d mod 255); the modifier bytes sum to d; d = 0 gives (0, 0).
C2_DelayEncoding ==
    call.fn = "delay2USBBytes" =>
        /\ call.ret.exc = NoExc
        /\ Len(call.ret.val) = 2 * ((call.arg \div 255) + 1)
        /\ \A i \in 1..(call.arg \div 255) :
               call.ret.val[2 * i - 1] = 0 /\ call.ret.val[2 * i] = 255
        /\ call.ret.val[Len(call.ret.val) - 1] = 0
        /\ call.ret.val[Len(call.ret.val)] = call.arg % 255
        /\ SumModifiers(call.ret.val) = call.arg
        /\ (call.arg = 0 => call.ret.val = <<0, 0>>)

C2_Witness ==
    /\ call.fn = "delay2USBBytes"
    /\ call.arg = 520
    /\ call.ret.val = <<0, 255, 0, 255, 0, 10>>

\* C3: for a line L that is neither skipped nor a REPEAT line and that
\* parseScriptLine encodes, the script "L", "REPEAT N" returns the encoding of
\* L N+1 times; parseScript raises on that script only when L is not encodable.
C3_RepeatNPlusOne ==
    \A L \in CommandLines, N \in 0..MaxRepeat :
        source = L \o RepeatLine(N) =>
            /\ pc = "done" =>
                   result = Rep(parseScriptLine(CleanLine(L), keyProp, langProp).val, N + 1)
            /\ pc = "raised" =>
                   parseScriptLine(CleanLine(L), keyProp, langProp).exc # NoExc

C3_Witness ==
    /\ source = <<"S", "T", "R", "I", "N", "G", " ", "a", "Z", "\n">> \o RepeatLine(2)
    /\ keyProp = KeyboardFull
    /\ pc = "done"
    /\ result = <<4, 0, 29, 2, 4, 0, 29, 2, 4, 0, 29, 2>>

\* C4: the recorded last line is never a REPEAT line, and the script "L",
\* "REPEAT N1", "REPEAT N2" returns the encoding of L 1+N1+N2 times.
\* The code breaks it: the assignment lastLine = l after the branches records
\* the REPEAT line too, and the second REPEAT encodes the first as a bare key.
C4_LastLineNeverRepeat ==
    /\ lastLine # None => ~RepeatInstruction(lastLine)
    /\ \A L \in CommandLines, N1 \in 0..MaxRepeat, N2 \in 0..MaxRepeat :
           (source = L \o RepeatLine(N1) \o RepeatLine(N2) /\ pc = "done") =>
               result = Rep(parseScriptLine(CleanLine(L), keyProp, langProp).val,
                            1 + N1 + N2)

\* C5: as long as only blank lines, comments and REPEAT lines have been
\* processed, the payload is empty, no line is recorded and nothing is raised.
C5_RepeatWithoutLastLine ==
    (\A i \in 1..Processed : BlankOrComment(lines[i]) \/ RepeatInstruction(lines[i])) =>
        /\ result = <<>>
        /\ lastLine = None
        /\ pc # "raised"

C5_Witness ==
    /\ source = <<"/", "/", " ", "c", "\n">> \o RepeatLine(2) \o RepeatLine(1)
    /\ pc = "done"
    /\ result = <<>>
    /\ lastLine = None

\* C6: a script of blank lines and comments only is encoded to the empty
\* payload, without a table lookup and without an exception.
C6_CommentsOnly ==
    (\A i \in 1..Len(lines) : BlankOrComment(lines[i])) =>
        /\ result = <<>>
        /\ lookups = 0
        /\ pc # "raised"

C6_Witness ==
    /\ source = <<"/", "/", " ", "c", "\n">> \o <<" ", " ", "\r", "\n">> \o <<"R", "E", "M", " ", "x", "\n">>
    /\ Len(lines) = 3
    /\ pc = "done"
    /\ result = <<>>

\* C7: a bare line whose multi-character name is in neither table, directly or
\* through an alias, does not raise; it contributes the modifier byte 0 alone
\* (no keycode byte), and the next line is encoded after it.
C7_UnknownBareKey ==
    /\ pc = "raised" => ~UnknownBareKey(lines[idx])
    /\ \A B \in CommandLines, L \in CommandLines :
           (source = B \o L /\ UnknownBareKey(B)) =>
               /\ pc = "done" =>
                      result = <<0>> \o parseScriptLine(CleanLine(L), keyProp, langProp).val
               /\ pc = "raised" =>
                      parseScriptLine(CleanLine(L), keyProp, langProp).exc # NoExc

C7_Witness ==
    /\ source = <<"S", "O", "M", "E", "T", "H", "I", "N", "G", "B", "O", "G", "U", "S", "\n">> \o <<"S", "T", "R", "I", "N", "G", " ", "a", "Z", "\n">>
    /\ keyProp = KeyboardFull
    /\ pc = "done"
    /\ result = <<0, 4, 0, 29, 2>>

\* C8: parseScriptLine returns the empty output, whatever the tables, for
\* ALT-TAB with an argument, for CTRL-ALT, CTRL-SHIFT and COMMAND-OPTION
\* without one, and for STRING and STRING_DELAY without one.
C8_EmptyOutput ==
    (/\ call.fn = "parseScriptLine"
     /\ \/ CmdOf(call.arg) = <<"A", "L", "T", "-", "T", "A", "B">> /\ ArgsOf(call.arg) # <<>>
        \/ CmdOf(call.arg) \in {<<"C", "T", "R", "L", "-", "A", "L", "T">>, <<"C", "T", "R", "L", "-", "S", "H", "I", "F", "T">>, <<"C", "O", "M", "M", "A", "N", "D", "-", "O", "P", "T", "I", "O", "N">>}
               /\ ArgsOf(call.arg) = <<>>
        \/ CmdOf(call.arg) \in {<<"S", "T", "R", "I", "N", "G">>, <<"S", "T", "R", "I", "N", "G", "_", "D", "E", "L", "A", "Y">>} /\ ArgsOf(call.arg) = <<>>)
    => (call.ret.exc = NoExc /\ call.ret.val = <<>>)

C8_Witness ==
    /\ call.fn = "parseScriptLine"
    /\ call.arg = <<"C", "T", "R", "L", "-", "A", "L", "T">>
    /\ keyProp = KeyboardFull
    /\ call.ret.exc = NoExc
    /\ call.ret.val = <<>>

\* C9: a line of CTRL, CONTROL, ALT or SHIFT alone encodes to two bytes: the
\* table byte of KEY_LEFT_CTRL, KEY_LEFT_ALT or KEY_LEFT_SHIFT, then 0.
\* The code breaks it: these branches call prop2USBByte with one argument,
\* which raises TypeError.
C9_BareModifier ==
    \A p \in { <<<<"C", "T", "R", "L">>, <<"K", "E", "Y", "_", "L", "E", "F", "T", "_", "C", "T", "R", "L">>>>, <<<<"C", "O", "N", "T", "R", "O", "L">>, <<"K", "E", "Y", "_", "L", "E", "F", "T", "_", "C", "T", "R", "L">>>>,
               <<<<"A", "L", "T">>, <<"K", "E", "Y", "_", "L", "E", "F", "T", "_", "A", "L", "T">>>>, <<<<"S", "H", "I", "F", "T">>, <<"K", "E", "Y", "_", "L", "E", "F", "T", "_", "S", "H", "I", "F", "T">>>> } :
        (call.fn = "parseScriptLine" /\ call.arg = p[1] /\ p[2] \in Defined) =>
            /\ call.ret.exc = NoExc
            /\ call.ret.val = prop2USBByte(p[2], keyProp, langProp).val \o <<0>>

\* C10: prop2USBByte with a name absent from both tables returns the empty
\* result: it does not raise and substitutes no byte.
\* The code breaks it: keyval is never bound and its test raises
\* UnboundLocalError.
C10_AbsentProperty ==
    (call.fn = "prop2USBByte" /\ call.arg \notin Defined) =>
        (call.ret.exc = NoExc /\ call.ret.val = <<>>)

\* C11: keyInstr2USBBytes of a single character without an entry in the
\* language table returns the empty result and does not raise.
\* The code breaks it: it takes element 0 of the empty string that
\* ASCIIChar2USBBytes returns, which raises IndexError.
C11_SingleCharNoEntry ==
    (/\ call.fn = "keyInstr2USBBytes"
     /\ Len(call.arg) = 1
     /\ ASCIIName(call.arg[1]) \notin DOMAIN langProp)
    => (call.ret.exc = NoExc /\ call.ret.val = <<>>)

\* the (keycode, modifier) pairs of a payload, in order (a last byte without
\* a modifier is no pair)
PairsOf(d) == [n \in 1..(Len(d) \div 2) |-> <<d[2 * n - 1], d[2 * n]>>]

IsKeyPair(p) == p[1] # 0

IsWrite(e) == e.op = "write"

\* the reports of the pairs ps
ReportsOf(ps) == [n \in 1..Len(ps) |-> Write(Report(ps[n][1], ps[n][2]))]

\* C12: when out2hid is done, the reports written are those of the pairs with
\* a non-zero keycode, one each and in payload order; a pair with the keycode
\* zero causes a sleep and no report.
\* The code breaks it: the write and the flush follow the sleep without an
\* else, so a delay pair is also sent as a report with the keycode 0.
C12_ReportsForKeysOnly ==
    hpc = "closed" =>
        SelectSeq(events, IsWrite) = ReportsOf(SelectSeq(PairsOf(data), IsKeyPair))

\* the option o was handled by the loop of main
Handled(o) == \E n \in 1..Len(seen) : seen[n] = o

\* C13: when a run of main ends after writing the payload to standard output,
\* standard output holds the payload bytes and nothing else: no diagnostic
\* line was printed to it.
\* The code breaks it: ASCIIChar2USBBytes reports a character without an
\* entry, and a name without a keycode, with print, on standard output.
C13_StdoutPayloadOnly ==
    (/\ mpc = "exit" /\ status = 0 /\ ~Handled("-h")
     /\ ofile = NoOfile /\ (Handled("-p") \/ Handled("-r")))
    => (stdout.lines = 0 /\ stdout.bytes = result)

\* C14: when the passthru option was given, as -p or as --passthru, then after
\* the options the source is the text of standard input and there is no
\* output file, and a run that ends well has written the payload to standard
\* output and no file.
\* The code breaks it: the loop tests "--passsthru", so --passthru is
\* accepted by getopt and ignored; and a -o or -i after -p sets the output
\* file or the source again.
C14_PassthruOverrides ==
    (Handled("-p") \/ Handled("--passthru")) =>
        /\ (mpc = "opts" /\ opts = <<>>) => (source = stdin.text /\ ofile = NoOfile)
        /\ (mpc = "exit" /\ status = 0 /\ ~Handled("-h")) =>
               (written = {} /\ stdout.bytes = result)

\* the key names of the language-table entry of a character
EntryNames(c) ==
    LET e == Split(langProp[ASCIIName(c)], ",")
    IN  [n \in 1..Len(e) |-> Strip(e[n])]

\* a character with an entry in the language table whose names all have a
\* value in one of the tables
Resolvable(c) ==
    /\ ASCIIName(c) \in DOMAIN langProp
    /\ \A n \in 1..Len(EntryNames(c)) : EntryNames(c)[n] \in Defined

\* the byte of a name: the value of the keyboard table, else of the language
\* table
ByteOf(name) ==
    keyval2chr(IF name \in DOMAIN keyProp THEN keyProp[name] ELSE langProp[name]).val[1]

\* the bytes of a character: (keycode, 0) for an entry of one name, the bytes
\* of the names for an entry of more, nothing for a character not resolvable
CharBytes(c) ==
    IF ~Resolvable(c) THEN <<>>
    ELSE IF Len(EntryNames(c)) = 1 THEN <<ByteOf(EntryNames(c)[1]), 0>>
    ELSE [n \in 1..Len(EntryNames(c)) |-> ByteOf(EntryNames(c)[n])]

\* the number of resolvable characters of a text
ResolvableCount(s) == Cardinality({ n \in 1..Len(s) : Resolvable(s[n]) })

\* C15: STRING s returns, in the order of the characters of s, (keycode, 0)
\* for an entry of one key, (keycode, modifier) for an entry of a key and a
\* modifier, and nothing for a character without an entry (or whose names have
\* no value), the other characters still being encoded; it is the
\* concatenation of the ASCIIChar2USBBytes results, 2 bytes per resolvable
\* character.
C15_StringEncoding ==
    (call.fn = "parseScriptLine" /\ CmdOf(call.arg) = <<"S", "T", "R", "I", "N", "G">> /\ ArgsOf(call.arg) # <<>>) =>
        /\ call.ret.exc = NoExc
        /\ call.ret.val = Concat([n \in 1..Len(ArgsOf(call.arg)) |-> CharBytes(ArgsOf(call.arg)[n])])
        /\ call.ret.val =
               Concat([n \in 1..Len(ArgsOf(call.arg)) |->
                          ASCIIChar2USBBytes(ArgsOf(call.arg)[n], keyProp, langProp).val])
        /\ Len(call.ret.val) = 2 * ResolvableCount(ArgsOf(call.arg))

C15_Witness ==
    /\ call.fn = "parseScriptLine"
    /\ call.arg = <<"S", "T", "R", "I", "N", "G", " ", "x", "a", "x", "Z">>
    /\ keyProp = KeyboardFull
    /\ call.ret.val = <<4, 0, 29, 2>>

\* the delay and the text of a STRING_DELAY argument
DelayOf(l) == ParseInt(Strip(Split1(ArgsOf(l), " ")[1]), 10).n

TextOf(l) == Strip(Split1(ArgsOf(l), " ")[2])

\* the bytes of a character followed by the delay bytes, nothing for a
\* character not resolvable
CharDelayBytes(c, d) == IF Resolvable(c) THEN CharBytes(c) \o delay2USBBytes(d) ELSE <<>>

\* C17: STRING_DELAY d text returns, for each resolvable character of text in
\* order, its (keycode, modifier) bytes followed by delay2USBBytes(d), and
\* nothing for the other characters: k * (2 + 2 * (d div 255 + 1)) bytes for
\* k resolvable characters.
C17_StringDelayEncoding ==
    (/\ call.fn = "parseScriptLine"
     /\ CmdOf(call.arg) = <<"S", "T", "R", "I", "N", "G", "_", "D", "E", "L", "A", "Y">>
     /\ Len(Split1(ArgsOf(call.arg), " ")) = 2)
    => /\ call.ret.exc = NoExc
       /\ call.ret.val =
              Concat([n \in 1..Len(TextOf(call.arg)) |->
                         CharDelayBytes(TextOf(call.arg)[n], DelayOf(call.arg))])
       /\ Len(call.ret.val) =
              ResolvableCount(TextOf(call.arg)) * (2 + 2 * ((DelayOf(call.arg) \div 255) + 1))

C17_Witness ==
    /\ call.fn = "parseScriptLine"
    /\ call.arg = <<"S", "T", "R", "I", "N", "G", "_", "D", "E", "L", "A", "Y", " ", "3", "0", "0", " ", "x", "a", "Z", "x">>
    /\ keyProp = KeyboardFull
    /\ call.ret.val = <<4, 0, 0, 255, 0, 45, 29, 2, 0, 255, 0, 45>>

\* a raw line of the keyword REPEAT alone
CountlessRepeat(l) == Strip(l) = <<"R", "E", "P", "E", "A", "T">>

\* C16: a REPEAT line without a count is a no-op: it adds no bytes, raises
\* nothing and is not recorded as the last line.
\* The code breaks it: the line is stripped before the test for "REPEAT "
\* with its space, so it is encoded as a bare key, which adds the byte 0, and
\* it is recorded.
C16_RepeatWithoutCount ==
    /\ lastLine # <<"R", "E", "P", "E", "A", "T">>
    /\ pc = "raised" => ~CountlessRepeat(lines[idx])
    /\ \A L \in CommandLines, R \in CountlessRepeatLines :
           (source = L \o R /\ pc = "done") =>
               result = parseScriptLine(CleanLine(L), keyProp, langProp).val

\* the byte keyInstr2USBBytes gives a name with a value
KeyByte(name) == <<ByteOf(<<"K", "E", "Y", "_">> \o name)>>

\* C18: for a multi-character name K, keyInstr2USBBytes returns the value of
\* KEY_K of the keyboard table when it has one, also when the language table
\* has another, and the value of the language table only otherwise.
C18_KeyboardTableFirst ==
    (call.fn = "keyInstr2USBBytes" /\ Len(call.arg) > 1) =>
        /\ (<<"K", "E", "Y", "_">> \o call.arg) \in DOMAIN keyProp =>
               /\ call.ret.exc = NoExc
               /\ call.ret.val = keyval2chr(keyProp[<<"K", "E", "Y", "_">> \o call.arg]).val
        /\ ((<<"K", "E", "Y", "_">> \o call.arg) \notin DOMAIN keyProp
                /\ (<<"K", "E", "Y", "_">> \o call.arg) \in DOMAIN langProp) =>
               /\ call.ret.exc = NoExc
               /\ call.ret.val = keyval2chr(langProp[<<"K", "E", "Y", "_">> \o call.arg]).val

C18_Witness ==
    /\ call.fn = "keyInstr2USBBytes"
    /\ call.arg = <<"E", "N", "T", "E", "R">>
    /\ keyProp = KeyboardFull
    /\ langProp = LanguageUs
    /\ KeyboardFull[<<"K", "E", "Y", "_", "E", "N", "T", "E", "R">>] # LanguageUs[<<"K", "E", "Y", "_", "E", "N", "T", "E", "R">>]
    /\ call.ret.val = <<40>>

\* C19: keyInstr2USBBytes uses the alias table once at most, and only after
\* KEY_name missed in both tables: a name with a value gives that value, not
\* the value of its alias; a name without a value gives the value of its
\* alias; when the alias has none the result is empty, also when the alias of
\* the alias has one (BREAK is tried as KEY_PAUSE, never as
\* KEY_MEDIA_PLAY_PAUSE).
C19_AliasOnce ==
    (call.fn = "keyInstr2USBBytes" /\ Len(call.arg) > 1) =>
        /\ call.ret.exc = NoExc
        /\ call.ret.val =
               IF (<<"K", "E", "Y", "_">> \o call.arg) \in Defined THEN KeyByte(call.arg)
               ELSE IF Upper(call.arg) \notin DOMAIN Aliases THEN <<>>
               ELSE IF (<<"K", "E", "Y", "_">> \o Aliases[Upper(call.arg)]) \in Defined
               THEN KeyByte(Aliases[Upper(call.arg)])
               ELSE <<>>

C19_Witness ==
    /\ call.fn = "keyInstr2USBBytes"
    /\ call.arg = <<"B", "R", "E", "A", "K">>
    /\ <<"K", "E", "Y", "_", "P", "A", "U", "S", "E">> \notin Defined
    /\ <<"K", "E", "Y", "_", "M", "E", "D", "I", "A", "_", "P", "L", "A", "Y", "_", "P", "A", "U", "S", "E">> \in Defined
    /\ call.ret.exc = NoExc
    /\ call.ret.val = <<>>

\* the two modifier names of the commands of two modifiers
ComboModifiers ==
    (<<"C", "T", "R", "L", "-", "A", "L", "T">> :> <<<<"M", "O", "D", "I", "F", "I", "E", "R", "K", "E", "Y", "_", "C", "T", "R", "L">>, <<"M", "O", "D", "I", "F", "I", "E", "R", "K", "E", "Y", "_", "A", "L", "T">>>>) @@
    (<<"C", "T", "R", "L", "-", "S", "H", "I", "F", "T">> :> <<<<"M", "O", "D", "I", "F", "I", "E", "R", "K", "E", "Y", "_", "C", "T", "R", "L">>, <<"M", "O", "D", "I", "F", "I", "E", "R", "K", "E", "Y", "_", "S", "H", "I", "F", "T">>>>) @@
    (<<"C", "O", "M", "M", "A", "N", "D", "-", "O", "P", "T", "I", "O", "N">> :> <<<<"M", "O", "D", "I", "F", "I", "E", "R", "K", "E", "Y", "_", "L", "E", "F", "T", "_", "G", "U", "I">>, <<"M", "O", "D", "I", "F", "I", "E", "R", "K", "E", "Y", "_", "A", "L", "T">>>>) @@
    (<<"A", "L", "T", "-", "S", "H", "I", "F", "T">> :> <<<<"M", "O", "D", "I", "F", "I", "E", "R", "K", "E", "Y", "_", "L", "E", "F", "T", "_", "A", "L", "T">>, <<"M", "O", "D", "I", "F", "I", "E", "R", "K", "E", "Y", "_", "S", "H", "I", "F", "T">>>>)

\* a OR b on bytes, bit by bit
OrOf(a, b) ==
    LET Bit(x, n) == (x \div (2 ^ n)) % 2
        Max(x, y) == IF x > y THEN x ELSE y
        Val(n) == Max(Bit(a, n), Bit(b, n)) * (2 ^ n)
    IN  Val(0) + Val(1) + Val(2) + Val(3) + Val(4) + Val(5) + Val(6) + Val(7)

\* C20: a command of two modifiers with a key that resolves, the two modifier
\* names having values, returns two bytes: the keycode, then one byte, the
\* bitwise OR of the two modifier values.
C20_ComboModifierOr ==
    (/\ call.fn = "parseScriptLine"
     /\ CmdOf(call.arg) \in DOMAIN ComboModifiers
     /\ ArgsOf(call.arg) # <<>>
     /\ ComboModifiers[CmdOf(call.arg)][1] \in Defined
     /\ ComboModifiers[CmdOf(call.arg)][2] \in Defined
     /\ keyInstr2USBBytes(ArgsOf(call.arg), keyProp, langProp).exc = NoExc
     /\ keyInstr2USBBytes(ArgsOf(call.arg), keyProp, langProp).val # <<>>)
    => /\ call.ret.exc = NoExc
       /\ call.ret.val =
              <<keyInstr2USBBytes(ArgsOf(call.arg), keyProp, langProp).val[1],
                OrOf(ByteOf(ComboModifiers[CmdOf(call.arg)][1]),
                     ByteOf(ComboModifiers[CmdOf(call.arg)][2]))>>

C20_Witness ==
    /\ call.fn = "parseScriptLine"
    /\ call.arg = <<"C", "T", "R", "L", "-", "A", "L", "T", " ", "D", "E", "L", "E", "T", "E">>
    /\ keyProp = KeyboardOther
    /\ call.ret.val = <<76, 7>>

\* the modifier of the commands of one modifier
SingleModifiers ==
    (<<"C", "O", "N", "T", "R", "O", "L">> :> <<"M", "O", "D", "I", "F", "I", "E", "R", "K", "E", "Y", "_", "C", "T", "R", "L">>) @@ (<<"C", "T", "R", "L">> :> <<"M", "O", "D", "I", "F", "I", "E", "R", "K", "E", "Y", "_", "C", "T", "R", "L">>) @@
    (<<"A", "L", "T">> :> <<"M", "O", "D", "I", "F", "I", "E", "R", "K", "E", "Y", "_", "A", "L", "T">>) @@ (<<"S", "H", "I", "F", "T">> :> <<"M", "O", "D", "I", "F", "I", "E", "R", "K", "E", "Y", "_", "S", "H", "I", "F", "T">>) @@
    (<<"G", "U", "I">> :> <<"M", "O", "D", "I", "F", "I", "E", "R", "K", "E", "Y", "_", "L", "E", "F", "T", "_", "G", "U", "I">>) @@ (<<"W", "I", "N", "D", "O", "W", "S">> :> <<"M", "O", "D", "I", "F", "I", "E", "R", "K", "E", "Y", "_", "L", "E", "F", "T", "_", "G", "U", "I">>) @@
    (<<"C", "O", "M", "M", "A", "N", "D">> :> <<"M", "O", "D", "I", "F", "I", "E", "R", "K", "E", "Y", "_", "L", "E", "F", "T", "_", "G", "U", "I">>)

\* the keycode of a resolvable character: the byte of the first name of its
\* entry
KeycodeOf(c) == ByteOf(EntryNames(c)[1])

\* the characters of the language tables
LayoutChars == { "a", "A", "r", "z", "Z" }

\* the characters that share the keycode of c and resolve
SameKey(c) ==
    { d \in LayoutChars : Resolvable(d) /\ KeycodeOf(d) = KeycodeOf(c) }

\* the line l with the character d as its key
WithKey(l, d) == CmdOf(l) \o <<" ", d>>

\* C21: for a key argument of one character c that has a language-table
\* entry (whose names have values), keyInstr2USBBytes returns the keycode byte
\* of c alone, without the modifier of c: a command of one modifier encodes to
\* (keycode(c), modifier of the command), a command of two modifiers to
\* (keycode(c), the two or'ed), and characters that share the keycode give the
\* same output for the same command.
C21_SingleCharKeycodeOnly ==
    /\ (call.fn = "keyInstr2USBBytes" /\ Len(call.arg) = 1 /\ Resolvable(call.arg[1])) =>
           /\ call.ret.exc = NoExc
           /\ call.ret.val = <<KeycodeOf(call.arg[1])>>
    /\ (/\ call.fn = "parseScriptLine"
        /\ Len(ArgsOf(call.arg)) = 1
        /\ Resolvable(ArgsOf(call.arg)[1]))
       => /\ (CmdOf(call.arg) \in DOMAIN SingleModifiers
                 /\ SingleModifiers[CmdOf(call.arg)] \in Defined) =>
                 /\ call.ret.exc = NoExc
                 /\ call.ret.val = <<KeycodeOf(ArgsOf(call.arg)[1]),
                                     ByteOf(SingleModifiers[CmdOf(call.arg)])>>
          /\ (CmdOf(call.arg) \in DOMAIN ComboModifiers
                 /\ ComboModifiers[CmdOf(call.arg)][1] \in Defined
                 /\ ComboModifiers[CmdOf(call.arg)][2] \in Defined) =>
                 /\ call.ret.exc = NoExc
                 /\ call.ret.val = <<KeycodeOf(ArgsOf(call.arg)[1]),
                                     OrOf(ByteOf(ComboModifiers[CmdOf(call.arg)][1]),
                                          ByteOf(ComboModifiers[CmdOf(call.arg)][2]))>>
          /\ (CmdOf(call.arg) \in DOMAIN SingleModifiers \cup DOMAIN ComboModifiers) =>
                 \A d \in SameKey(ArgsOf(call.arg)[1]) :
                     /\ parseScriptLine(WithKey(call.arg, d), keyProp, langProp).exc = call.ret.exc
                     /\ parseScriptLine(WithKey(call.arg, d), keyProp, langProp).val = call.ret.val

\* CTRL Z, Z being a key and the shift modifier: the keycode of z and the
\* modifier of CTRL
C21_Witness ==
    /\ call.fn = "parseScriptLine"
    /\ call.arg = <<"C", "T", "R", "L", " ", "Z">>
    /\ keyProp = KeyboardFull
    /\ langProp = LanguageUs
    /\ Len(EntryNames("Z")) = 2
    /\ "z" \in SameKey("Z")
    /\ call.ret.val = <<29, 1>>

\* C22: on an instance, after any calls of setLanguage, the table in
\* self.language is the table of the language getLanguage() returns; after a
\* call with an unknown name fell back to us, a call with the language that
\* was active loads the table of that language again.
\* The code breaks it: the fallback loads the table of us and leaves
\* __str_lang as it was, so getLanguage() still names the former language,
\* and a call with that name then finds the name unchanged and loads nothing.
C22_TableOfGetLanguage ==
    (ipc = "ready" /\ getLanguage \in DOMAIN LanguageFiles) =>
        self_language = LanguageFiles[getLanguage]

\* C23: blank lines and comments leave the recorded line as it is: the last
\* line worked on that is neither skipped nor a REPEAT line is the recorded
\* line as long as only blank lines and comments followed it, also when its
\* encoding is empty (ALT-TAB x); and a script of a line L, blank lines and
\* comments, then REPEAT N returns the encoding of L N+1 times.
C23_SkippedKeepLastLine ==
    /\ \A j \in 1..(idx - 1) :
           (/\ ~BlankOrComment(lines[j])
            /\ ~RepeatInstruction(lines[j])
            /\ \A k \in (j + 1)..(idx - 1) : BlankOrComment(lines[k]))
           => lastLine = CleanLine(lines[j])
    /\ \A N \in 0..MaxRepeat :
           (/\ Len(lines) >= 3
            /\ lines[1] \in CommandLines
            /\ \A k \in 2..(Len(lines) - 1) : BlankOrComment(lines[k])
            /\ lines[Len(lines)] = RepeatLine(N))
           => /\ pc = "done" =>
                     result = Rep(parseScriptLine(CleanLine(lines[1]), keyProp, langProp).val,
                                  N + 1)
              /\ pc = "raised" =>
                     parseScriptLine(CleanLine(lines[1]), keyProp, langProp).exc # NoExc

\* ALT-TAB x, whose encoding is empty, is the recorded line after the comment
\* that follows it, a REPEAT line being next
C23_Witness ==
    /\ source = <<"A", "L", "T", "-", "T", "A", "B", " ", "x", "\r", "\n">> \o <<"/", "/", " ", "c", "\n">> \o RepeatLine(2)
    /\ pc = "loop"
    /\ idx = 3
    /\ result = <<>>
    /\ lastLine = <<"A", "L", "T", "-", "T", "A", "B", " ", "x">>

====
